---- MODULE Spec2Model ----
(***************************************************************************)
(* Document indexing and retrieval engine of Docu-query:                   *)
(*   DocumentService (src/src/services/document-service.ts) and            *)
(*   AIService       (src/unnamed/part_003, imported as ./ai-service).     *)
(* A string is a sequence of one-character strings; an instant is a        *)
(* number of clock ticks; a Map is the sequence of its entries in          *)
(* insertion order.                                                        *)
(***************************************************************************)
EXTENDS Integers, Sequences, FiniteSets, TLC

\* ------------------------------------------------------------------ bounds
\* Document ids handed out by crypto.randomUUID() are 1..MaxDocs.
MaxDocs == 2
\* uploadFile / updateDocument calls made in one run; call t runs in slot t.
MaxTasks == 2
\* The clock (new Date()) runs over 0..MaxTime.
MaxTime == 1
\* Components kept of an embedding vector (1536 in generateMockEmbedding).
EmbDim == 2
\* Chunk size indexDocument passes to splitIntoChunks (500 in the source),
\* scaled to the short texts of the model.
ChunkSize == 4

\* Longest text handed to generateEmbedding on its own.
MaxTextLen == 3
\* Most chunks in the vector store a session starts with.
MaxStored == 3

\* Longest text handed to splitIntoChunks on its own.
MaxSplitLen == 6
\* Most items in a BaseCrudService collection; item ids are 1..MaxItems.
MaxItems == 2

\* Most documents the upload surface holds; their ids are 1..MaxApiDocs.
MaxApiDocs == 2

\* ------------------------------------------------------- program constants
\* splitIntoChunks(text, chunkSize, overlap = 50)
DefaultOverlap == 50
\* AI_CONFIG.topK
TopK == 5

\* An id no uploadFile ever hands out (a caller's stale or mistyped id).
UnknownId == 0

Max(a, b) == IF a >= b THEN a ELSE b
Min(a, b) == IF a <= b THEN a ELSE b

\* ------------------------------------------------------------ JS strings
\* String.prototype.charCodeAt(0) on the characters the model's texts use.
CharCode(c) ==
  CASE c = " " -> 32
    [] c = "!" -> 33
    [] c = "." -> 46
    [] c = "?" -> 63
    [] c = "a" -> 97
    [] c = "b" -> 98
    [] c = "c" -> 99
    [] c = "d" -> 100
    [] OTHER -> 120

\* The separator class of text.split(/[.!?]+/).
IsTerminator(c) == c \in {".", "!", "?"}

RECURSIVE TrimStart(_)
TrimStart(s) ==
  IF s = <<>> THEN <<>>
  ELSE IF Head(s) = " " THEN TrimStart(Tail(s)) ELSE s

RECURSIVE TrimEnd(_)
TrimEnd(s) ==
  IF s = <<>> THEN <<>>
  ELSE IF s[Len(s)] = " " THEN TrimEnd(SubSeq(s, 1, Len(s) - 1)) ELSE s

\* String.prototype.trim()
Trim(s) == TrimEnd(TrimStart(s))

\* text.split(/[.!?]+/): the pieces between maximal runs of terminators,
\* empty pieces at either end included.
RECURSIVE SplitRuns(_, _, _, _)
SplitRuns(text, i, cur, inRun) ==
  IF i > Len(text) THEN <<cur>>
  ELSE IF IsTerminator(text[i])
       THEN IF inRun THEN SplitRuns(text, i + 1, cur, TRUE)
            ELSE <<cur>> \o SplitRuns(text, i + 1, <<>>, TRUE)
       ELSE SplitRuns(text, i + 1, Append(cur, text[i]), FALSE)

\* str.split(' '): the pieces between single spaces, empty pieces included.
RECURSIVE SplitSpaces(_, _, _)
SplitSpaces(s, i, cur) ==
  IF i > Len(s) THEN <<cur>>
  ELSE IF s[i] = " " THEN <<cur>> \o SplitSpaces(s, i + 1, <<>>)
       ELSE SplitSpaces(s, i + 1, Append(cur, s[i]))

\* words.join(' ')
RECURSIVE JoinSpaces(_)
JoinSpaces(words) ==
  IF words = <<>> THEN <<>>
  ELSE IF Len(words) = 1 THEN words[1]
       ELSE words[1] \o <<" ">> \o JoinSpaces(Tail(words))

NonBlank(s) == Trim(s) # <<>>

\* sentences.filter(s => s.trim())
RECURSIVE FilterNonBlank(_)
FilterNonBlank(seq) ==
  IF seq = <<>> THEN <<>>
  ELSE (IF NonBlank(Head(seq)) THEN <<Head(seq)>> ELSE <<>>) \o FilterNonBlank(Tail(seq))

\* words.slice(-overlap / 10): the start is truncated toward zero; a negative
\* start counts from the end, and -0 is 0 (the whole array).
SliceStart(len, overlap) ==
  LET k == IF overlap >= 0 THEN overlap \div 10 ELSE 0 - ((0 - overlap) \div 10)
  IN  IF k > 0 THEN Max(len - k, 0) ELSE Min(0 - k, len)

OverlapSeed(currentChunk, overlap) ==
  LET words == SplitSpaces(currentChunk, 1, <<>>)
      from  == SliceStart(Len(words), overlap)
  IN  JoinSpaces(SubSeq(words, from + 1, Len(words))) \o <<" ">>

\* The for-of loop of splitIntoChunks: st = [chunks, currentChunk].
RECURSIVE ChunkLoop(_, _, _, _)
ChunkLoop(sentences, st, chunkSize, overlap) ==
  IF sentences = <<>> THEN st
  ELSE
    LET sentence == Head(sentences)
        close == Len(st.currentChunk \o sentence) > chunkSize /\ st.currentChunk # <<>>
        chunks1 == IF close THEN Append(st.chunks, Trim(st.currentChunk)) ELSE st.chunks
        cur1 == IF close THEN OverlapSeed(st.currentChunk, overlap) ELSE st.currentChunk
        closed1 == IF close
                   THEN Append(st.closed, [buffer |-> st.currentChunk, sentence |-> sentence,
                                           seed |-> cur1])
                   ELSE st.closed
    IN  ChunkLoop(Tail(sentences),
                  [chunks |-> chunks1, currentChunk |-> cur1 \o sentence \o <<".", " ">>,
                   closed |-> closed1],
                  chunkSize, overlap)

\* The sentences splitIntoChunks iterates over, and the closings its loop
\* makes: the buffer closed, the sentence that did not fit and the seed of
\* the next buffer.
SentencesOf(text) == FilterNonBlank(SplitRuns(text, 1, <<>>, FALSE))
ClosingsOf(text, chunkSize, overlap) ==
  ChunkLoop(SentencesOf(text), [chunks |-> <<>>, currentChunk |-> <<>>, closed |-> <<>>],
            chunkSize, overlap).closed

splitIntoChunks(text, chunkSize, overlap) ==
  LET sentences == FilterNonBlank(SplitRuns(text, 1, <<>>, FALSE))
      st == ChunkLoop(sentences, [chunks |-> <<>>, currentChunk |-> <<>>, closed |-> <<>>],
                      chunkSize, overlap)
      chunks == IF Trim(st.currentChunk) # <<>>
                THEN Append(st.chunks, Trim(st.currentChunk)) ELSE st.chunks
  IN  IF Len(chunks) > 0 THEN chunks ELSE <<text>>

\* ------------------------------------------------------------ embeddings
\* Math.sin(x) for a whole number x of radians, in hundredths: x is reduced
\* modulo 2*pi = 710/113 and the half wave is Bhaskara's rational sine.
Sin100(x) ==
  LET r == (x * 113) % 710
      h == r % 355
      p == h * (355 - h)
      v == (1600 * p) \div (5 * 355 * 355 - 4 * p)
  IN  IF r < 355 THEN v ELSE 0 - v

RECURSIVE SumCharCodes(_)
SumCharCodes(text) ==
  IF text = <<>> THEN 0 ELSE CharCode(Head(text)) + SumCharCodes(Tail(text))

\* Components are hundredths of sin(seed * (i + 1)) * 0.5 + 0.5, i from 0.
generateMockEmbedding(text) ==
  LET seed == SumCharCodes(text)
  IN  [i \in 1..EmbDim |-> (Sin100(seed * i) + 100) \div 2]

\* Math.ceil(text.length / 4)
MockTokenCount(text) == (Len(text) + 3) \div 4

\* What data.data[0].embedding of a 2xx response can be.
RemoteVectors == { [i \in 1..EmbDim |-> IF i = 1 THEN 100 ELSE 0] }

\* An optional value: absent or present.
Absent == <<>>
Some(v) == <<v>>

\* The value of a property that the object read does not have.
Undefined == <<>>

\* A parsed body of the embeddings endpoint: data is the array 'data' if the
\* body has one, each entry with its 'embedding' if it has one; usage is
\* usage.total_tokens if the body has a 'usage'.
EmbeddingBody(data, usage) == [data |-> data, usage |-> usage]

\* What fetch and response.json() can do with the request for text: fetch
\* rejects; the status is not 2xx; the body is not JSON; the body has no
\* 'data', an empty 'data', an entry without 'embedding', no 'usage'; or the
\* body is the documented one.
EmbeddingResponses(text) ==
  { [fetch |-> "reject", ok |-> FALSE, json |-> Absent],
    [fetch |-> "resolve", ok |-> FALSE, json |-> Absent],
    [fetch |-> "resolve", ok |-> TRUE, json |-> Absent],
    [fetch |-> "resolve", ok |-> TRUE,
     json |-> Some(EmbeddingBody(Absent, Some(Len(text))))],
    [fetch |-> "resolve", ok |-> TRUE,
     json |-> Some(EmbeddingBody(Some(<<>>), Some(Len(text))))],
    [fetch |-> "resolve", ok |-> TRUE,
     json |-> Some(EmbeddingBody(Some(<<[embedding |-> Absent]>>), Some(Len(text))))] }
  \cup { [fetch |-> "resolve", ok |-> TRUE,
          json |-> Some(EmbeddingBody(Some(<<[embedding |-> Some(v)]>>), usage))] :
          v \in RemoteVectors, usage \in {Absent, Some(Len(text))} }

\* The result of generateEmbedding when no credential is set, and of its
\* catch block.
MockResult(text) ==
  [embedding |-> generateMockEmbedding(text), tokenCount |-> MockTokenCount(text)]

\* generateEmbedding with a credential, given what the endpoint does: the
\* try block returns { data.data[0].embedding, data.usage.total_tokens }, and
\* whatever it throws ends in the catch block's mock result.
EmbeddingFrom(text, r) ==
  IF r.fetch = "reject" \/ ~r.ok \/ r.json = Absent THEN MockResult(text)
  ELSE LET data == r.json[1]
       IN  IF data.data = Absent \/ data.data[1] = <<>> THEN MockResult(text)
           ELSE IF data.usage = Absent THEN MockResult(text)
           ELSE [ embedding |-> IF data.data[1][1].embedding = Absent THEN Undefined
                                ELSE data.data[1][1].embedding[1],
                  tokenCount |-> data.usage[1] ]

\* The results generateEmbedding(text) can resolve to. viaRemote: this.apiKey
\* was set when the call was made, so fetch was issued.
generateEmbedding(text, viaRemote) ==
  IF viaRemote
  THEN {EmbeddingFrom(text, r) : r \in EmbeddingResponses(text)}
  ELSE {MockResult(text)}

RECURSIVE Dot(_, _)
Dot(a, b) ==
  IF a = <<>> THEN 0 ELSE Head(a) * Head(b) + Dot(Tail(a), Tail(b))

\* Math.sqrt, rounded down.
RECURSIVE SqrtIter(_, _, _)
SqrtIter(x, lo, hi) ==
  IF lo >= hi THEN lo
  ELSE LET mid == (lo + hi + 1) \div 2
       IN  IF mid * mid <= x THEN SqrtIter(x, mid, hi) ELSE SqrtIter(x, lo, mid - 1)

Sqrt(x) == SqrtIter(x, 0, 40000)

\* a.length or b.length of a vector that is undefined: a TypeError.
CosineThrows(a, b) == a = Undefined \/ b = Undefined

\* In thousandths. The vectors of the model are non-zero (a zero norm makes
\* the source's quotient NaN).
cosineSimilarity(a, b) ==
  IF Len(a) # Len(b) THEN 0
  ELSE (1000 * Dot(a, b)) \div Sqrt(Dot(a, a) * Dot(b, b))

\* ---------------------------------------------------------- vector store
\* vectorStore: Map<string, DocumentChunk> as the sequence of its values in
\* insertion order; every entry is stored under its own chunk id.
\* A chunk id that leaves the document out.
ChunkIdByIndexOnly(documentId, i) == <<UnknownId, "-chunk-", i>>

chunkId(documentId, i) == <<documentId, "-chunk-", i>>

MakeChunk(document, chunks, i, embedding) ==
  [ id |-> chunkId(document.id, i),
    documentId |-> document.id,
    content |-> chunks[i + 1],
    embedding |-> embedding,
    metadata |-> [ title |-> document.title, fileType |-> document.fileType,
                   chunkIndex |-> i, totalChunks |-> Len(chunks) ] ]

\* A map whose set never overwrites: every call adds an entry.
MapSetAppends(store, chunk) == Append(store, chunk)

\* Map.prototype.set: an existing key keeps its place, a new key goes last.
MapSet(store, chunk) ==
  IF \E k \in 1..Len(store) : store[k].id = chunk.id
  THEN [k \in 1..Len(store) |-> IF store[k].id = chunk.id THEN chunk ELSE store[k]]
  ELSE Append(store, chunk)

\* The loop of indexDocument from chunk i on, with no other call in between:
\* chunk i is embedded as embeddingOf[its key] and set under that key.
RECURSIVE IndexPass(_, _, _, _, _)
IndexPass(store, document, chunks, i, embeddingOf) ==
  IF i >= Len(chunks) THEN store
  ELSE IndexPass(MapSet(store, MakeChunk(document, chunks, i,
                                         embeddingOf[chunkId(document.id, i)])),
                 document, chunks, i + 1, embeddingOf)

\* localStorage 'docu-query-vectors': JSON.stringify(Object.fromEntries(map)),
\* an object whose keys keep the map's order; numbers and strings as they are.
saveVectorStore(store) == [k \in 1..Len(store) |-> <<store[k].id, store[k]>>]

\* new Map(Object.entries(JSON.parse(stored)))
loadVectorStore(stored) == [k \in 1..Len(stored) |-> stored[k][2]]

\* A sweep that deletes the document's first chunk key alone.
RemoveFirstChunkOnly(store, documentId) ==
  SelectSeq(store, LAMBDA chunk : chunk.id # chunkId(documentId, 0))

\* removeDocument without its trailing save: the entries whose documentId
\* differs are kept, in order.
removeDocument(store, documentId) ==
  SelectSeq(store, LAMBDA chunk : chunk.documentId # documentId)

\* A clear that leaves the in-memory map as it is.
ClearNothing(store) == store

clearIndex(store) == <<>>

ChunksOfDocument(store, documentId) ==
  SelectSeq(store, LAMBDA chunk : chunk.documentId = documentId)

\* ------------------------------------------------------------- retriever
\* results.sort((a, b) => b.score - a.score): stable, by score descending.
\* A sort by score ascending.
RECURSIVE InsertByScoreAscending(_, _)
InsertByScoreAscending(sorted, r) ==
  IF sorted = <<>> THEN <<r>>
  ELSE IF Head(sorted).score <= r.score
       THEN <<Head(sorted)>> \o InsertByScoreAscending(Tail(sorted), r)
       ELSE <<r>> \o sorted

\* A sort by score descending that puts a later equal score first.
RECURSIVE InsertByScoreTiesReversed(_, _)
InsertByScoreTiesReversed(sorted, r) ==
  IF sorted = <<>> THEN <<r>>
  ELSE IF Head(sorted).score > r.score
       THEN <<Head(sorted)>> \o InsertByScoreTiesReversed(Tail(sorted), r)
       ELSE <<r>> \o sorted

RECURSIVE InsertByScore(_, _)
InsertByScore(sorted, r) ==
  IF sorted = <<>> THEN <<r>>
  ELSE IF Head(sorted).score >= r.score
       THEN <<Head(sorted)>> \o InsertByScore(Tail(sorted), r)
       ELSE <<r>> \o sorted

RECURSIVE SortByScore(_, _)
SortByScore(results, k) ==
  IF k = 0 THEN <<>>
  ELSE InsertByScore(SortByScore(results, k - 1), results[k])

\* The grouping loop over topResults: documentMap as a sequence of sources in
\* insertion order.
RECURSIVE GroupByDocument(_, _, _)
GroupByDocument(topResults, documentMap, at) ==
  IF topResults = <<>> THEN documentMap
  ELSE
    LET chunk == Head(topResults).chunk
        score == Head(topResults).score
        has == \E k \in 1..Len(documentMap) : documentMap[k].id = chunk.documentId
        next ==
          IF ~has
          THEN Append(documentMap,
                 [ id |-> chunk.documentId, title |-> chunk.metadata.title,
                   content |-> chunk.content, relevanceScore |-> score,
                   lastUpdated |-> at ])
          ELSE [k \in 1..Len(documentMap) |->
                 IF documentMap[k].id = chunk.documentId
                 THEN [documentMap[k] EXCEPT
                         !.content = @ \o <<"\n", "\n">> \o chunk.content,
                         !.relevanceScore = Max(@, score)]
                 ELSE documentMap[k]]
    IN  GroupByDocument(Tail(topResults), next, at)

\* The scan of searchDocuments throws at the first chunk it cannot score.
SearchThrows(store, queryEmbedding) ==
  \E k \in 1..Len(store) : CosineThrows(queryEmbedding, store[k].embedding)

\* searchDocuments without .slice(0, topK): every scored chunk is grouped.
searchDocumentsWithoutSlice(store, queryEmbedding, topK, at) ==
  LET results == [k \in 1..Len(store) |->
                    [chunk |-> store[k],
                     score |-> cosineSimilarity(queryEmbedding, store[k].embedding)]]
  IN  GroupByDocument(SortByScore(results, Len(results)), <<>>, at)

\* searchDocuments after its await: the scan of the store, the sort, the
\* slice and the grouping run without suspension.
searchDocuments(store, queryEmbedding, topK, at) ==
  LET results == [k \in 1..Len(store) |->
                    [chunk |-> store[k],
                     score |-> cosineSimilarity(queryEmbedding, store[k].embedding)]]
      sorted == SortByScore(results, Len(results))
      topResults == SubSeq(sorted, 1, Min(topK, Len(sorted)))
  IN  GroupByDocument(topResults, <<>>, at)

\* ------------------------------------------------------ answer synthesizer
\* sources[0].content.substring(0, 500)
ExcerptLength == 500

\* (relevanceScore * 100).toFixed(1): the percentage and its one decimal.
ToFixed1(score) == <<score \div 10, score % 10>>

\* generateMockResponse(query, sources): the parts the template is filled
\* with. Without sources the only part is the query.
generateMockResponse(query, sources) ==
  IF Len(sources) = 0
  THEN [ template |-> "notFound", query |-> query ]
  ELSE [ template |-> "grounded",
         sourceNames |-> [k \in 1..Len(sources) |-> sources[k].title],
         excerpt |-> SubSeq(sources[1].content, 1, Min(ExcerptLength, Len(sources[1].content))),
         query |-> query,
         matched |-> Len(sources),
         referenced |-> [k \in 1..Len(sources) |->
                          <<k, sources[k].title, ToFixed1(sources[k].relevanceScore)>>] ]

\* The text a well-formed completion carries.
RemoteAnswer == [template |-> "remote"]

\* A parsed body of the chat completions endpoint: choices is the array
\* 'choices' if the body has one; an entry is its 'message' if it has one; a
\* message is its 'content' if it has one.
CompletionResponses ==
  { [fetch |-> "reject", ok |-> FALSE, json |-> Absent],
    [fetch |-> "resolve", ok |-> FALSE, json |-> Absent],
    [fetch |-> "resolve", ok |-> TRUE, json |-> Absent],
    [fetch |-> "resolve", ok |-> TRUE, json |-> Some([choices |-> Absent])],
    [fetch |-> "resolve", ok |-> TRUE, json |-> Some([choices |-> Some(<<>>)])],
    [fetch |-> "resolve", ok |-> TRUE,
     json |-> Some([choices |-> Some(<<[message |-> Absent]>>)])],
    [fetch |-> "resolve", ok |-> TRUE,
     json |-> Some([choices |-> Some(<<[message |-> Some([content |-> Absent])]>>)])],
    [fetch |-> "resolve", ok |-> TRUE,
     json |-> Some([choices |-> Some(<<[message |-> Some([content |-> Some(RemoteAnswer)])]>>)])] }

\* generateCompletion with a credential, given what the endpoint does: the
\* try block returns data.choices[0].message.content, and whatever it throws
\* ends in the catch block's generateMockResponse.
CompletionFrom(query, sources, r) ==
  IF r.fetch = "reject" \/ ~r.ok \/ r.json = Absent THEN Some(generateMockResponse(query, sources))
  ELSE LET data == r.json[1]
       IN  IF data.choices = Absent \/ data.choices[1] = <<>>
           THEN Some(generateMockResponse(query, sources))
           ELSE IF data.choices[1][1].message = Absent
           THEN Some(generateMockResponse(query, sources))
           ELSE data.choices[1][1].message[1].content

\* ------------------------------------------------------------- documents
\* Date.prototype.toISOString as JSON.stringify applies it, and new Date(iso).
toISOString(t) == [iso |-> t]
ParseDate(s) == s.iso

\* JSON.stringify of one Document.
SerializeDocument(doc) ==
  [doc EXCEPT !.uploadedAt = toISOString(@), !.lastUpdated = toISOString(@)]

\* A mapping that takes both dates from uploadedAt.
ReviveFromUploadedAt(entry) ==
  [entry EXCEPT !.uploadedAt = ParseDate(@), !.lastUpdated = ParseDate(entry.uploadedAt)]

\* loadDocuments' mapping of one parsed entry.
ReviveDocument(entry) ==
  [entry EXCEPT !.uploadedAt = ParseDate(@), !.lastUpdated = ParseDate(@)]

\* loadDocuments: the Map's values, in the order of the stored array.
loadDocuments(stored) == [k \in 1..Len(stored) |-> ReviveDocument(stored[k])]

\* Array.from(this.documents.values()): the map's objects in insertion order.
DocumentValues(objs, keys) == [k \in 1..Len(keys) |-> objs[keys[k]]]

\* saveDocuments: localStorage 'docu-query-documents'.
saveDocuments(objs, keys) ==
  LET data == DocumentValues(objs, keys)
  IN  [k \in 1..Len(data) |-> SerializeDocument(data[k])]

\* (a, b) => b.lastUpdated.getTime() - a.lastUpdated.getTime(), stable.
RECURSIVE InsertByLastUpdated(_, _)
InsertByLastUpdated(sorted, doc) ==
  IF sorted = <<>> THEN <<doc>>
  ELSE IF Head(sorted).lastUpdated >= doc.lastUpdated
       THEN <<Head(sorted)>> \o InsertByLastUpdated(Tail(sorted), doc)
       ELSE <<doc>> \o sorted

RECURSIVE SortByLastUpdated(_, _)
SortByLastUpdated(docs, k) ==
  IF k = 0 THEN <<>>
  ELSE InsertByLastUpdated(SortByLastUpdated(docs, k - 1), docs[k])

getAllDocuments(objs, keys) ==
  LET values == DocumentValues(objs, keys)
  IN  SortByLastUpdated(values, Len(values))

\* notifyUpdate: one call per callback of the Set, in insertion order, each
\* with the same array. by is the method that called it; stored and chunks
\* record what localStorage and the vector store held while the callbacks ran.
notifyUpdate(by, objs, keys, callbacks, stored, store) ==
  LET docs == getAllDocuments(objs, keys)
  IN  [ by |-> by,
        calls |-> [k \in 1..Len(callbacks) |-> [callback |-> callbacks[k], docs |-> docs]],
        stored |-> stored,
        chunks |-> Len(store) ]

\* this.notifyUpdate(); this.saveDocuments();
NotifyThenSave(by, objs, keys, callbacks, oldStored, store) ==
  [ stored |-> saveDocuments(objs, keys),
    notified |-> notifyUpdate(by, objs, keys, callbacks, oldStored, store) ]

\* this.saveDocuments(); this.notifyUpdate();
SaveAndNotify(by, objs, keys, callbacks, oldStored, store) ==
  LET stored == saveDocuments(objs, keys)
  IN  [stored |-> stored, notified |-> notifyUpdate(by, objs, keys, callbacks, stored, store)]

\* ------------------------------------------------------------------ inputs
TextA == <<"a", ".">>
TextB == <<"a", ".", "b", ".", "c", ".">>

\* The File objects a user uploads: name, size and what file.text() yields.
Files ==
  { [name |-> <<"a", ".", "T", "X", "T">>, size |-> 2, text |-> TextA],
    [name |-> <<"b", ".", "x">>, size |-> 6, text |-> TextB] }

\* The contents an editor passes to updateDocument.
Contents == {TextA, TextB}

\* The query texts of searchDocuments, and the topK values passed.
Queries == {TextA}
TopKs == {1, TopK}

\* The texts generateEmbedding is called with: every string of at most
\* MaxTextLen characters, the empty string among them.
Chars == {"a", "b", ".", " "}
Texts == UNION { [1..n -> Chars] : n \in 0..MaxTextLen }

\* The query texts searched for over a persisted store.
UserQueries == {TextA, <<"b">>}

\* The topK values a caller of searchDocuments can pass.
AnyTopK == 0..TopK

\* The callbacks handed to onUpdate.
Callbacks == {"cb1", "cb2"}

\* The messages file.text() rejects with (a DOMException's message).
ReadErrors == {<<"NotReadableError">>}

FileNamed(name) == CHOOSE f \in Files : f.name = name

\* String.prototype.toLowerCase on the letters file names use.
ToLowerCase(s) ==
  [k \in 1..Len(s) |-> CASE s[k] = "T" -> "t" [] s[k] = "X" -> "x" [] OTHER -> s[k]]

\* name.split('.').pop(): what follows the last dot, the whole name without one.
RECURSIVE AfterLastDot(_, _)
AfterLastDot(name, k) ==
  IF k = 0 THEN name
  ELSE IF name[k] = "." THEN SubSeq(name, k + 1, Len(name)) ELSE AfterLastDot(name, k - 1)

getFileType(file) ==
  LET extension == ToLowerCase(AfterLastDot(file.name, Len(file.name)))
  IN  IF extension # <<>> THEN extension ELSE <<"unknown">>

TextTypes == { <<"t", "x", "t">>, <<"m", "d">>, <<"j", "s", "o", "n">>, <<"c", "s", "v">> }

\* What extractContent(file) settles to for the files of Files: a text type
\* passes the rejection of file.text() on, the default branch replaces it.
\* (The pdf and docx stubs return a placeholder; Files holds no such file.)
extractContent(file) ==
  LET fileType == getFileType(file)
  IN  IF fileType \in TextTypes
      THEN {[ok |-> TRUE, value |-> file.text]}
             \cup {[ok |-> FALSE, value |-> m] : m \in ReadErrors}
      ELSE {[ok |-> TRUE, value |-> file.text],
            [ok |-> FALSE, value |-> <<"Unsupported file type: ", fileType>>]}

\* ------------------------------------------------------------------- state
VARIABLES
  objs,             \* the Document objects ever created, by id (the heap)
  documents,        \* DocumentService.documents: the ids in the Map, in order
  storedDocuments,  \* localStorage 'docu-query-documents'
  onUpdateCallbacks,\* DocumentService.onUpdateCallbacks, in insertion order
  vectorStore,      \* AIService.vectorStore
  storedVectors,    \* localStorage 'docu-query-vectors'
  apiKey,           \* AIService.apiKey is non-empty
  tasks,            \* the suspended uploadFile / updateDocument calls
  now,              \* the clock read by new Date()
  notified,         \* the notifyUpdate of the last step, if it made one
  returned,         \* the promise settled or the error thrown in the last step, if any
  found,            \* the result of the searchDocuments of the last step, if any
  quietDeleted,     \* ids deleted while no call on them was suspended
  apiDocuments,     \* the Map 'documents' of the upload surface (pages/api/documents.ts)
  storage,          \* the module variable 'storage' of BaseCrudService, by collection
  localCollections, \* localStorage 'docu-query-<collectionId>', by collection
  replied           \* what the last call outside DocumentService answered, if any

vars == <<objs, documents, storedDocuments, onUpdateCallbacks, vectorStore,
          storedVectors, apiKey, tasks, now, notified, returned, found, quietDeleted,
          apiDocuments, storage, localCollections, replied>>

Statuses == {"pending", "processing", "indexed", "error"}

\* The collections BaseCrudService is called with (HistoryPage, HomePage).
Collections == {"queryhistory"}

IdleTask ==
  [ kind |-> "idle", pc |-> "idle", id |-> UnknownId, file |-> <<>>, content |-> <<>>,
    chunks |-> <<>>, outstanding |-> {}, written |-> {}, isolated |-> FALSE ]

DoneTask == [IdleTask EXCEPT !.pc = "done"]

Slots == 1..MaxTasks
Free(t) == tasks[t].pc = "idle"
InFlight(t) == tasks[t].pc \notin {"idle", "done"}
InFlightOn(id) == \E t \in Slots : InFlight(t) /\ tasks[t].id = id
FreeSlot == CHOOSE t \in Slots : Free(t) /\ \A u \in Slots : Free(u) => t <= u

\* No call is inside its synchronous prefix: uploadFile runs from the
\* 'pending' record to the 'processing' record without suspending.
NoSync == \A t \in Slots : tasks[t].pc # "created"

\* The ids a caller can name: those uploadFile has handed out, and a stale one.
KnownIds == {UnknownId} \cup (1..Len(objs))

InMap(id) == \E k \in 1..Len(documents) : documents[k] = id

\* A lookup that finds every Document object ever created, deleted or not.
GetDetached(id) == IF id \in 1..Len(objs) THEN Some(objs[id]) ELSE Absent

getDocument(id) == IF InMap(id) THEN Some(objs[id]) ELSE Absent
MapDelete(keys, id) == SelectSeq(keys, LAMBDA k : k # id)

\* Tasks on id lose their isolation when another operation on id runs.
Disturb(ts, ids) ==
  [t \in Slots |-> IF ts[t].id \in ids THEN [ts[t] EXCEPT !.isolated = FALSE] ELSE ts[t]]

\* The services as their constructors leave them over an empty localStorage;
\* key: getApiKey() found a credential in the environment.
Constructed(key) ==
  /\ objs = <<>>
  /\ documents = <<>>
  /\ storedDocuments = <<>>
  /\ onUpdateCallbacks = <<>>
  /\ vectorStore = <<>>
  /\ storedVectors = <<>>
  /\ apiKey = key
  /\ tasks = [t \in Slots |-> IdleTask]
  /\ now = 0
  /\ notified = Absent
  /\ returned = Absent
  /\ found = Absent
  /\ quietDeleted = {}
  /\ apiDocuments = <<>>
  /\ storage = [c \in Collections |-> Absent]
  /\ localCollections = [c \in Collections |-> Absent]
  /\ replied = Absent

Init == Constructed(FALSE)

\* With or without a credential configured before the session starts.
InitCredential == \E key \in BOOLEAN : Constructed(key)

\* A step of DocumentService or AIService leaves the upload surface and the
\* collections of BaseCrudService alone.
OtherModules == replied' = Absent /\ UNCHANGED <<apiDocuments, storage, localCollections>>

NoOutput == notified' = Absent /\ returned' = Absent /\ found' = Absent

\* ----------------------------------------------------------------- actions
\* Time passes between two reads of the clock.
Tick ==
  /\ NoSync
  /\ OtherModules
  /\ now < MaxTime
  /\ now' = now + 1
  /\ NoOutput
  /\ UNCHANGED <<objs, documents, storedDocuments, onUpdateCallbacks, vectorStore,
                 storedVectors, apiKey, tasks, quietDeleted>>

setApiKey(key) ==
  /\ NoSync
  /\ OtherModules
  /\ key # apiKey
  /\ apiKey' = key
  /\ NoOutput
  /\ UNCHANGED <<objs, documents, storedDocuments, onUpdateCallbacks, vectorStore,
                 storedVectors, tasks, now, quietDeleted>>

\* Set.prototype.add
SetAdd(callbacks, callback) ==
  IF \E k \in 1..Len(callbacks) : callbacks[k] = callback
  THEN callbacks ELSE Append(callbacks, callback)

onUpdate(callback) ==
  /\ NoSync
  /\ OtherModules
  /\ onUpdateCallbacks' = SetAdd(onUpdateCallbacks, callback)
  /\ onUpdateCallbacks' # onUpdateCallbacks
  /\ NoOutput
  /\ UNCHANGED <<objs, documents, storedDocuments, vectorStore, storedVectors,
                 apiKey, tasks, now, quietDeleted>>

\* The handle onUpdate returned: this.onUpdateCallbacks.delete(callback).
Unsubscribe(callback) ==
  /\ NoSync
  /\ OtherModules
  /\ \E k \in 1..Len(onUpdateCallbacks) : onUpdateCallbacks[k] = callback
  /\ onUpdateCallbacks' = SelectSeq(onUpdateCallbacks, LAMBDA c : c # callback)
  /\ NoOutput
  /\ UNCHANGED <<objs, documents, storedDocuments, vectorStore, storedVectors,
                 apiKey, tasks, now, quietDeleted>>

\* Every request issued at once, as a Promise.all over the chunks would.
AllRequestsAtOnce(n) == 0..(n - 1)

\* The requests of one indexDocument pass: the loop awaits request i before
\* it writes chunk i and issues request i + 1.
FirstRequests(n) == IF 0 < n THEN {0} ELSE {}
NextRequests(i, n) == IF i + 1 < n THEN {i + 1} ELSE {}

\* generateEmbedding reads this.apiKey when it is called.
Issue(indices, key) == {[index |-> i, viaRemote |-> key] : i \in indices}

\* The argument object of aiService.indexDocument, built at the call.
IndexArgument(doc) ==
  [id |-> doc.id, title |-> doc.title, content |-> doc.content, fileType |-> doc.fileType]

\* const chunks = this.splitIntoChunks(document.content, 500), a local of the call.
TaskChunks(t) == tasks[t].chunks

\* A call of indexDocument up to its first await.
StartIndex(task, doc, key) ==
  LET chunks == splitIntoChunks(doc.content, ChunkSize, DefaultOverlap)
      first == Issue(FirstRequests(Len(chunks)), key)
  IN  [task EXCEPT !.pc = IF first = {} THEN "return" ELSE "embed",
                   !.content = doc.content, !.chunks = chunks,
                   !.outstanding = first, !.written = {}]

\* uploadFile up to its first notifyUpdate: the 'pending' record.
uploadFile(file) ==
  /\ NoSync
  /\ OtherModules
  /\ Len(objs) < MaxDocs
  /\ \E t \in Slots : Free(t)
  /\ LET id == Len(objs) + 1
         document ==
           [ id |-> id, title |-> file.name, content |-> <<>>,
             fileType |-> getFileType(file), fileSize |-> file.size,
             uploadedAt |-> now, lastUpdated |-> now, status |-> "pending",
             chunkCount |-> Absent, error |-> Absent ]
         objs1 == Append(objs, document)
         keys1 == Append(documents, id)
         sn == SaveAndNotify("uploadFile", objs1, keys1, onUpdateCallbacks, storedDocuments, vectorStore)
     IN  /\ objs' = objs1
         /\ documents' = keys1
         /\ storedDocuments' = sn.stored
         /\ notified' = Some(sn.notified)
         /\ tasks' = [tasks EXCEPT ![FreeSlot] =
                        [IdleTask EXCEPT !.kind = "upload", !.pc = "created", !.id = id,
                                         !.file = file.name, !.isolated = TRUE]]
  /\ returned' = Absent /\ found' = Absent
  /\ UNCHANGED <<onUpdateCallbacks, vectorStore, storedVectors, apiKey, now, quietDeleted>>

\* uploadFile from the 'processing' record to the await of extractContent.
UploadProcessing(t) ==
  /\ tasks[t].pc = "created"
  /\ OtherModules
  /\ LET id == tasks[t].id
         objs1 == [objs EXCEPT ![id].status = "processing"]
         sn == SaveAndNotify("uploadFile", objs1, documents, onUpdateCallbacks, storedDocuments, vectorStore)
     IN  /\ objs' = objs1
         /\ storedDocuments' = sn.stored
         /\ notified' = Some(sn.notified)
         /\ tasks' = [tasks EXCEPT ![t].pc = "extract"]
  /\ returned' = Absent /\ found' = Absent
  /\ UNCHANGED <<documents, onUpdateCallbacks, vectorStore, storedVectors, apiKey, now,
                 quietDeleted>>

\* extractContent resolved: the content is set and indexDocument is called.
ExtractResolve(t) ==
  /\ NoSync
  /\ OtherModules
  /\ tasks[t].pc = "extract"
  /\ \E r \in extractContent(FileNamed(tasks[t].file)) :
       /\ r.ok
       /\ LET id == tasks[t].id
              objs1 == [objs EXCEPT ![id].content = r.value]
          IN  /\ objs' = objs1
              /\ tasks' = [tasks EXCEPT ![t] = StartIndex(@, IndexArgument(objs1[id]), apiKey)]
  /\ NoOutput
  /\ UNCHANGED <<documents, storedDocuments, onUpdateCallbacks, vectorStore, storedVectors,
                 apiKey, now, quietDeleted>>

\* A catch block that records the status and drops the message.
CatchWithoutMessage(doc, message) == [doc EXCEPT !.status = "error"]

\* The catch block of uploadFile and of updateDocument.
CatchError(doc, message) == [doc EXCEPT !.status = "error", !.error = Some(message)]

\* extractContent rejected: uploadFile's catch block, which rethrows.
ExtractReject(t) ==
  /\ NoSync
  /\ OtherModules
  /\ tasks[t].pc = "extract"
  /\ \E r \in extractContent(FileNamed(tasks[t].file)) :
       /\ ~r.ok
       /\ LET id == tasks[t].id
              objs1 == [objs EXCEPT ![id] = CatchError(@, r.value)]
              sn == SaveAndNotify("uploadFile", objs1, documents, onUpdateCallbacks, storedDocuments,
                                  vectorStore)
          IN  /\ objs' = objs1
              /\ storedDocuments' = sn.stored
              /\ notified' = Some(sn.notified)
              /\ returned' = Some([op |-> "uploadFile", id |-> id, error |-> Some(r.value),
                                   isolated |-> tasks[t].isolated])
  /\ tasks' = [tasks EXCEPT ![t] = DoneTask]
  /\ found' = Absent
  /\ UNCHANGED <<documents, onUpdateCallbacks, vectorStore, storedVectors, apiKey, now,
                 quietDeleted>>

\* One await of generateEmbedding in indexDocument's loop settles: the chunk
\* is written, and the loop either issues the next request or, after the last
\* chunk, saves the vector store and returns to the caller's await.
EmbedReturn(t) ==
  /\ NoSync
  /\ OtherModules
  /\ tasks[t].pc = "embed"
  /\ \E req \in tasks[t].outstanding :
     \E res \in generateEmbedding(TaskChunks(t)[req.index + 1], req.viaRemote) :
       LET doc == objs[tasks[t].id]
           document == [id |-> doc.id, title |-> doc.title, content |-> tasks[t].content,
                        fileType |-> doc.fileType]
           chunks == TaskChunks(t)
           store1 == MapSet(vectorStore, MakeChunk(document, chunks, req.index, res.embedding))
           rest == (tasks[t].outstanding \ {req})
                     \cup Issue(NextRequests(req.index, Len(chunks)), apiKey)
       IN  /\ vectorStore' = store1
           /\ storedVectors' = IF rest = {} THEN saveVectorStore(store1) ELSE storedVectors
           /\ tasks' = [tasks EXCEPT ![t].outstanding = rest,
                                     ![t].written = @ \cup {req.index},
                                     ![t].pc = IF rest = {} THEN "return" ELSE "embed"]
  /\ NoOutput
  /\ UNCHANGED <<objs, documents, storedDocuments, onUpdateCallbacks, apiKey, now,
                 quietDeleted>>

\* uploadFile returning after indexDocument without the final status.
UploadFinishKeepsStatus(t) ==
  /\ NoSync
  /\ OtherModules
  /\ tasks[t].kind = "upload" /\ tasks[t].pc = "return"
  /\ LET id == tasks[t].id
         objs1 == [objs EXCEPT ![id].lastUpdated = now]
         sn == SaveAndNotify("uploadFile", objs1, documents, onUpdateCallbacks, storedDocuments, vectorStore)
     IN  /\ objs' = objs1
         /\ storedDocuments' = sn.stored
         /\ notified' = Some(sn.notified)
         /\ returned' = Some([op |-> "uploadFile", id |-> id, error |-> Absent,
                              isolated |-> tasks[t].isolated])
  /\ tasks' = [tasks EXCEPT ![t] = DoneTask]
  /\ found' = Absent
  /\ UNCHANGED <<documents, onUpdateCallbacks, vectorStore, storedVectors, apiKey, now,
                 quietDeleted>>

\* uploadFile after indexDocument returned.
UploadFinish(t) ==
  /\ NoSync
  /\ OtherModules
  /\ tasks[t].kind = "upload" /\ tasks[t].pc = "return"
  /\ LET id == tasks[t].id
         objs1 == [objs EXCEPT ![id].status = "indexed", ![id].lastUpdated = now]
         sn == SaveAndNotify("uploadFile", objs1, documents, onUpdateCallbacks, storedDocuments, vectorStore)
     IN  /\ objs' = objs1
         /\ storedDocuments' = sn.stored
         /\ notified' = Some(sn.notified)
         /\ returned' = Some([op |-> "uploadFile", id |-> id, error |-> Absent,
                              isolated |-> tasks[t].isolated])
  /\ tasks' = [tasks EXCEPT ![t] = DoneTask]
  /\ found' = Absent
  /\ UNCHANGED <<documents, onUpdateCallbacks, vectorStore, storedVectors, apiKey, now,
                 quietDeleted>>

\* updateDocument that saves and notifies before it looks the document up.
updateDocumentSavesFirst(id, content) ==
  /\ NoSync
  /\ OtherModules
  /\ getDocument(id) = Absent
  /\ LET sn == SaveAndNotify("updateDocument", objs, documents, onUpdateCallbacks,
                             storedDocuments, vectorStore)
     IN  /\ storedDocuments' = sn.stored
         /\ notified' = Some(sn.notified)
  /\ returned' = Some([op |-> "updateDocument", id |-> id,
                       error |-> Some(<<"Document not found">>), isolated |-> TRUE])
  /\ found' = Absent
  /\ UNCHANGED <<objs, vectorStore, storedVectors, tasks, documents, onUpdateCallbacks,
                 apiKey, now, quietDeleted>>

\* updateDocument up to the first await of indexDocument, or its throw.
updateDocument(id, content) ==
  /\ NoSync
  /\ OtherModules
  /\ IF getDocument(id) = Absent
     THEN /\ returned' = Some([op |-> "updateDocument", id |-> id,
                               error |-> Some(<<"Document not found">>), isolated |-> TRUE])
          /\ notified' = Absent
          /\ UNCHANGED <<objs, storedDocuments, vectorStore, storedVectors, tasks>>
     ELSE /\ \E t \in Slots : Free(t)
          /\ LET objs1 == [objs EXCEPT ![id].content = content, ![id].lastUpdated = now,
                                       ![id].status = "processing"]
                 sn == SaveAndNotify("updateDocument", objs1, documents, onUpdateCallbacks, storedDocuments,
                                     vectorStore)
                 store1 == removeDocument(vectorStore, id)
                 task == [IdleTask EXCEPT !.kind = "update", !.id = id,
                                          !.isolated = ~InFlightOn(id)]
             IN  /\ objs' = objs1
                 /\ storedDocuments' = sn.stored
                 /\ notified' = Some(sn.notified)
                 /\ vectorStore' = store1
                 /\ storedVectors' = saveVectorStore(store1)
                 /\ tasks' = [Disturb(tasks, {id}) EXCEPT ![FreeSlot] =
                                StartIndex(task, IndexArgument(objs1[id]), apiKey)]
                 /\ returned' = Absent
  /\ found' = Absent
  /\ UNCHANGED <<documents, onUpdateCallbacks, apiKey, now, quietDeleted>>

\* updateDocument after indexDocument returned.
UpdateFinish(t) ==
  /\ NoSync
  /\ OtherModules
  /\ tasks[t].kind = "update" /\ tasks[t].pc = "return"
  /\ LET id == tasks[t].id
         objs1 == [objs EXCEPT ![id].status = "indexed"]
         sn == SaveAndNotify("updateDocument", objs1, documents, onUpdateCallbacks, storedDocuments, vectorStore)
     IN  /\ objs' = objs1
         /\ storedDocuments' = sn.stored
         /\ notified' = Some(sn.notified)
         /\ returned' = Some([op |-> "updateDocument", id |-> id, error |-> Absent,
                              isolated |-> tasks[t].isolated])
  /\ tasks' = [tasks EXCEPT ![t] = DoneTask]
  /\ found' = Absent
  /\ UNCHANGED <<documents, onUpdateCallbacks, vectorStore, storedVectors, apiKey, now,
                 quietDeleted>>

deleteDocument(id) ==
  /\ NoSync
  /\ OtherModules
  /\ LET store1 == removeDocument(vectorStore, id)
         keys1 == MapDelete(documents, id)
         sn == SaveAndNotify("deleteDocument", objs, keys1, onUpdateCallbacks, storedDocuments, store1)
     IN  /\ vectorStore' = store1
         /\ storedVectors' = saveVectorStore(store1)
         /\ documents' = keys1
         /\ storedDocuments' = sn.stored
         /\ notified' = Some(sn.notified)
  /\ returned' = Absent
  /\ quietDeleted' = IF InFlightOn(id) \/ id = UnknownId THEN quietDeleted
                     ELSE quietDeleted \cup {id}
  /\ tasks' = Disturb(tasks, {id})
  /\ found' = Absent
  /\ UNCHANGED <<objs, onUpdateCallbacks, apiKey, now>>

clearAll ==
  /\ NoSync
  /\ OtherModules
  /\ LET store1 == clearIndex(vectorStore)
         keys1 == <<>>
         sn == SaveAndNotify("clearAll", objs, keys1, onUpdateCallbacks, storedDocuments, store1)
     IN  /\ vectorStore' = store1
         /\ storedVectors' = saveVectorStore(store1)
         /\ documents' = keys1
         /\ storedDocuments' = sn.stored
         /\ notified' = Some(sn.notified)
  /\ returned' = Absent
  /\ tasks' = Disturb(tasks, 1..MaxDocs)
  /\ found' = Absent
  /\ UNCHANGED <<objs, onUpdateCallbacks, apiKey, now, quietDeleted>>

\* A TypeError thrown out of an async method of AIService.
TypeError == <<"TypeError">>

\* searchDocuments: the query's embedding settles and the store is scanned.
Search(query, topK) ==
  /\ NoSync
  /\ \E res \in generateEmbedding(query, apiKey) :
       IF SearchThrows(vectorStore, res.embedding)
       THEN /\ found' = Absent
            /\ replied' = Some([op |-> "searchDocuments", topK |-> topK,
                                queryEmbedding |-> res.embedding,
                                error |-> Some(TypeError)])
       ELSE /\ found' = Some(searchDocuments(vectorStore, res.embedding, topK, now))
            /\ replied' = Some([op |-> "searchDocuments", topK |-> topK,
                                queryEmbedding |-> res.embedding,
                                error |-> Absent])
  /\ notified' = Absent /\ returned' = Absent
  /\ UNCHANGED <<objs, documents, storedDocuments, onUpdateCallbacks, vectorStore,
                 storedVectors, apiKey, tasks, now, quietDeleted>>
  /\ UNCHANGED <<apiDocuments, storage, localCollections>>

\* The state DocumentService and AIService are left in by a step of another
\* module.
ServicesIdle ==
  /\ notified' = Absent /\ returned' = Absent /\ found' = Absent
  /\ UNCHANGED <<objs, documents, storedDocuments, onUpdateCallbacks, vectorStore,
                 storedVectors, apiKey, tasks, now, quietDeleted>>

\* One call of generateEmbedding(text), from the call to the settled promise:
\* fetch is issued only with a credential, and response is what it met.
Embed(text) ==
  /\ NoSync
  /\ IF ~apiKey
     THEN replied' = Some([ op |-> "generateEmbedding", text |-> text, fetched |-> FALSE,
                            response |-> Absent, result |-> MockResult(text) ])
     ELSE \E r \in EmbeddingResponses(text) :
            replied' = Some([ op |-> "generateEmbedding", text |-> text, fetched |-> TRUE,
                              response |-> Some(r), result |-> EmbeddingFrom(text, r) ])
  /\ ServicesIdle
  /\ UNCHANGED <<apiDocuments, storage, localCollections>>

\* What query(userQuery) can settle with: searchDocuments with the default
\* topK, then generateCompletion; no other call runs between its two awaits.
\* A throw of searchDocuments rejects the query before any completion is
\* asked for.
QueryOutcomes(userQuery) ==
  UNION {
    IF SearchThrows(vectorStore, res.embedding)
    THEN { [ op |-> "query", query |-> userQuery, fetched |-> FALSE,
             response |-> Absent, error |-> Some(TypeError),
             answer |-> Absent, sources |-> <<>>, confidence |-> 0 ] }
    ELSE LET sources == searchDocuments(vectorStore, res.embedding, TopK, now)
             confidence == IF Len(sources) > 0 THEN sources[1].relevanceScore ELSE 0
         IN  IF ~apiKey
             THEN { [ op |-> "query", query |-> userQuery, fetched |-> FALSE,
                      response |-> Absent, error |-> Absent,
                      answer |-> Some(generateMockResponse(userQuery, sources)),
                      sources |-> sources, confidence |-> confidence ] }
             ELSE { [ op |-> "query", query |-> userQuery, fetched |-> TRUE,
                      response |-> Some(r), error |-> Absent,
                      answer |-> CompletionFrom(userQuery, sources, r),
                      sources |-> sources, confidence |-> confidence ]
                    : r \in CompletionResponses }
    : res \in generateEmbedding(userQuery, apiKey) }

\* query(userQuery), from the call to the settled promise.
Query(userQuery) ==
  /\ NoSync
  /\ \E outcome \in QueryOutcomes(userQuery) : replied' = Some(outcome)
  /\ ServicesIdle
  /\ UNCHANGED <<apiDocuments, storage, localCollections>>

\* ------------------------------------------------------------- the chunker
\* The arguments of splitIntoChunks: every text of at most MaxSplitLen
\* characters over a letter, the space and the full stop, the empty text
\* among them; chunk sizes around their lengths; overlaps below, at and
\* above ten, the default among them.
SplitChars == {"a", " ", "."}
SplitTexts == UNION { [1..n -> SplitChars] : n \in 0..MaxSplitLen }
SplitSizes == {0, 2, ChunkSize, MaxSplitLen}
Overlaps == {0 - 10, 0, 5, 10, 20, DefaultOverlap}

\* One call of splitIntoChunks.
Split(text, chunkSize, overlap) ==
  /\ NoSync
  /\ replied' = Some([ op |-> "splitIntoChunks", text |-> text, chunkSize |-> chunkSize,
                       overlap |-> overlap,
                       sentences |-> SentencesOf(text),
                       closed |-> ClosingsOf(text, chunkSize, overlap),
                       chunks |-> splitIntoChunks(text, chunkSize, overlap) ])
  /\ ServicesIdle
  /\ UNCHANGED <<apiDocuments, storage, localCollections>>

Chunking ==
  \E text \in SplitTexts, chunkSize \in SplitSizes, overlap \in Overlaps :
    Split(text, chunkSize, overlap)

\* ---------------------------------------------------------- BaseCrudService
\* An _id or itemId that is missing: undefined or ''.
NoItemId == 0
ItemIds == 1..MaxItems

\* The feedbackRating a caller stores with an item.
Ratings == {0, 5}

\* What callers pass as itemData: an _id, or none, and the item's fields.
ItemData == [_id : ItemIds \cup {NoItemId}, feedbackRating : Ratings]

\* new Date(), and what JSON.stringify makes of a date or of the string a
\* date became on an earlier round trip.
NewDate(t) == [date |-> t]
DateToJSON(d) == IF "date" \in DOMAIN d THEN toISOString(d.date) ELSE d
DateFields == {"_createdDate", "_updatedDate", "queryTimestamp"}
ItemToJSON(item) ==
  [f \in DOMAIN item |-> IF f \in DateFields THEN DateToJSON(item[f]) ELSE item[f]]

\* { ...a, ...b }
Spread(a, b) ==
  [f \in DOMAIN a \cup DOMAIN b |-> IF f \in DOMAIN b THEN b[f] ELSE a[f]]

\* JSON.parse(localStorage.getItem(...)) if the key holds something, else the
\* module's own array, else [].
CollectionOf(local, memory, collectionId) ==
  IF local[collectionId] # Absent THEN local[collectionId][1]
  ELSE IF memory[collectionId] # Absent THEN memory[collectionId][1]
  ELSE <<>>

getCollectionStorage(collectionId) == CollectionOf(localCollections, storage, collectionId)

\* storage[collectionId] = items; localStorage.setItem(...) in a try whose
\* catch only logs: written is whether setItem went through.
saveCollectionStorage(collectionId, items, written) ==
  /\ storage' = [storage EXCEPT ![collectionId] = Some(items)]
  /\ localCollections' =
       IF written
       THEN [localCollections EXCEPT
               ![collectionId] = Some([k \in 1..Len(items) |-> ItemToJSON(items[k])])]
       ELSE localCollections

\* items.findIndex(i => i._id === id): 0 stands for the source's -1.
FindIndex(items, id) ==
  IF \E k \in 1..Len(items) : items[k]._id = id
  THEN CHOOSE k \in 1..Len(items) :
         items[k]._id = id /\ \A m \in 1..(k - 1) : items[m]._id # id
  ELSE 0

RemoveAt(items, index) ==
  [k \in 1..(Len(items) - 1) |-> IF k < index THEN items[k] ELSE items[k + 1]]

\* What a BaseCrudService call settles with.
Resolved(op, collectionId, value) ==
  Some([op |-> op, collection |-> collectionId, error |-> Absent, value |-> value])
Rejected(op, collectionId, message) ==
  Some([op |-> op, collection |-> collectionId, error |-> Some(message), value |-> Absent])

\* { ...itemData, _id: itemData._id || crypto.randomUUID(), _createdDate: new
\* Date(), _updatedDate: new Date() }
NewItem(itemData, uuid, t) ==
  Spread(itemData,
         [ _id |-> IF itemData._id # NoItemId THEN itemData._id ELSE uuid,
           _createdDate |-> NewDate(t),
           _updatedDate |-> NewDate(t) ])

\* BaseCrudService.create; uuid is what crypto.randomUUID() would give.
create(collectionId, itemData, uuid, written) ==
  /\ NoSync
  /\ LET items == getCollectionStorage(collectionId)
         newItem == NewItem(itemData, uuid, now)
     IN  /\ Len(items) < MaxItems
         /\ \A k \in 1..Len(items) : items[k]._id # uuid
         /\ saveCollectionStorage(collectionId, Append(items, newItem), written)
         /\ replied' = Resolved("create", collectionId, newItem)
  /\ ServicesIdle
  /\ UNCHANGED apiDocuments

\* BaseCrudService.getAll
getAll(collectionId) ==
  /\ NoSync
  /\ LET items == getCollectionStorage(collectionId)
     IN  replied' = Resolved("getAll", collectionId,
                             [items |-> items, totalCount |-> Len(items)])
  /\ ServicesIdle
  /\ UNCHANGED <<apiDocuments, storage, localCollections>>

\* BaseCrudService.update
update(collectionId, itemData, written) ==
  /\ NoSync
  /\ IF itemData._id = NoItemId
     THEN /\ replied' = Rejected("update", collectionId,
                                 <<collectionId, " ID is required for update">>)
          /\ UNCHANGED <<storage, localCollections>>
     ELSE LET items == getCollectionStorage(collectionId)
              index == FindIndex(items, itemData._id)
          IN  IF index = 0
              THEN /\ replied' = Rejected("update", collectionId,
                                   <<collectionId, " with ID ", itemData._id, " not found">>)
                   /\ UNCHANGED <<storage, localCollections>>
              ELSE LET updatedItem ==
                         Spread(Spread(items[index], itemData),
                                [_updatedDate |-> NewDate(now)])
                   IN  /\ saveCollectionStorage(collectionId,
                                                [items EXCEPT ![index] = updatedItem], written)
                       /\ replied' = Resolved("update", collectionId, updatedItem)
  /\ ServicesIdle
  /\ UNCHANGED apiDocuments

\* BaseCrudService.delete that saves the collection before it checks itemId.
deleteSavesFirst(collectionId, itemId, written) ==
  /\ NoSync
  /\ itemId = NoItemId
  /\ saveCollectionStorage(collectionId, getCollectionStorage(collectionId), written)
  /\ replied' = Rejected("delete", collectionId,
                         <<collectionId, " ID is required for deletion">>)
  /\ ServicesIdle
  /\ UNCHANGED apiDocuments

\* BaseCrudService.delete
delete(collectionId, itemId, written) ==
  /\ NoSync
  /\ IF itemId = NoItemId
     THEN /\ replied' = Rejected("delete", collectionId,
                                 <<collectionId, " ID is required for deletion">>)
          /\ UNCHANGED <<storage, localCollections>>
     ELSE LET items == getCollectionStorage(collectionId)
              index == FindIndex(items, itemId)
          IN  IF index = 0
              THEN /\ replied' = Rejected("delete", collectionId,
                                   <<collectionId, " with ID ", itemId, " not found">>)
                   /\ UNCHANGED <<storage, localCollections>>
              ELSE /\ saveCollectionStorage(collectionId, RemoveAt(items, index), written)
                   /\ replied' = Resolved("delete", collectionId, items[index])
  /\ ServicesIdle
  /\ UNCHANGED apiDocuments

\* The calls the pages make on BaseCrudService.
History ==
  \/ \E c \in Collections, itemData \in ItemData, uuid \in ItemIds, written \in BOOLEAN :
       create(c, itemData, uuid, written)
  \/ \E c \in Collections : getAll(c)
  \/ \E c \in Collections, itemData \in ItemData, written \in BOOLEAN :
       update(c, itemData, written)
  \/ \E c \in Collections, itemId \in ItemIds \cup {NoItemId}, written \in BOOLEAN :
       delete(c, itemId, written)

\* ------------------------------------------------- pages on query history
\* The texts typed into the query box; one of them is blank.
PageQueries == UserQueries \cup {<<" ">>}

\* The stars of a history entry: [1, 2, 3, 4, 5].
StarRatings == 1..5

\* HomePage.handleSubmitQuery: nothing for a blank query; else
\* aiService.query and, if it resolves, BaseCrudService.create of the history
\* record. A rejected query ends in the catch block and creates nothing.
handleSubmitQuery(query, uuid, written) ==
  /\ NoSync
  /\ IF Trim(query) = <<>>
     THEN /\ replied' = Some([op |-> "handleSubmitQuery", query |-> query,
                              outcome |-> Absent, created |-> Absent])
          /\ UNCHANGED <<storage, localCollections>>
     ELSE \E outcome \in QueryOutcomes(query) :
            IF outcome.error # Absent
            THEN /\ replied' = Some([op |-> "handleSubmitQuery", query |-> query,
                                     outcome |-> Some(outcome), created |-> Absent])
                 /\ UNCHANGED <<storage, localCollections>>
            ELSE LET items == getCollectionStorage("queryhistory")
                     newItem ==
                       NewItem([ _id |-> uuid,
                                 userQuery |-> query,
                                 aiAnswer |-> outcome.answer,
                                 queryTimestamp |-> NewDate(now),
                                 sourceDocuments |->
                                   [k \in 1..Len(outcome.sources) |-> outcome.sources[k].title],
                                 feedbackRating |-> 0 ], uuid, now)
                 IN  /\ Len(items) < MaxItems
                     /\ \A k \in 1..Len(items) : items[k]._id # uuid
                     /\ saveCollectionStorage("queryhistory", Append(items, newItem), written)
                     /\ replied' = Some([op |-> "handleSubmitQuery", query |-> query,
                                         outcome |-> Some(outcome), created |-> Some(newItem)])
  /\ ServicesIdle
  /\ UNCHANGED apiDocuments

\* HistoryPage.loadHistory
loadHistory == getAll("queryhistory")

\* HistoryPage.handleRating
handleRating(id, rating, written) ==
  update("queryhistory", [_id |-> id, feedbackRating |-> rating], written)

\* A handleDelete that empties the history.
handleDeleteClearsHistory(id, written) ==
  /\ NoSync
  /\ FindIndex(getCollectionStorage("queryhistory"), id) # 0
  /\ saveCollectionStorage("queryhistory", <<>>, written)
  /\ replied' = Resolved("delete", "queryhistory",
                         getCollectionStorage("queryhistory")[
                           FindIndex(getCollectionStorage("queryhistory"), id)])
  /\ ServicesIdle
  /\ UNCHANGED apiDocuments

\* HistoryPage.handleDelete
handleDelete(id, written) == delete("queryhistory", id, written)

\* What a user does on the home page and the history page, in a browser
\* whose localStorage takes every write.
Pages ==
  \/ \E query \in PageQueries, uuid \in ItemIds : handleSubmitQuery(query, uuid, TRUE)
  \/ loadHistory
  \/ \E id \in ItemIds, rating \in StarRatings : handleRating(id, rating, TRUE)
  \/ \E id \in ItemIds : handleDelete(id, TRUE)
  \/ \E key \in BOOLEAN : setApiKey(key)

\* ----------------------------------------------- upload surface (HTTP API)
\* An id that is missing from a request body, or falsy in it.
NoApiId == 0
ApiIds == 1..MaxApiDocs
\* The ids a client can send: those the surface hands out and one it never did.
ClientIds == 1..(MaxApiDocs + 1)

\* The bodies a request can carry, as request.json() meets them: nothing
\* that parses, JSON null, or a value whose id is present or not; and a
\* multipart form with or without its 'file' part.
UnparsableBody == [shape |-> "unparsable", id |-> NoApiId, content |-> Absent, file |-> Absent]
NullBody == [shape |-> "null", id |-> NoApiId, content |-> Absent, file |-> Absent]
ObjectBody(id, content) ==
  [shape |-> "object", id |-> id, content |-> content, file |-> Absent]
FormBody(file) == [shape |-> "multipart", id |-> NoApiId, content |-> Absent, file |-> file]
PostBodies ==
  {UnparsableBody, NullBody, FormBody(Absent)} \cup
  {FormBody(Some(file)) : file \in Files} \cup
  {ObjectBody(id, content) : id \in ApiIds \cup {NoApiId}, content \in {Absent, Some(TextA)}}
DeleteBodies ==
  {UnparsableBody, NullBody} \cup {ObjectBody(id, Absent) : id \in ClientIds \cup {NoApiId}}

\* new Response(JSON.stringify(body), {status})
Response(op, status, body) == Some([op |-> op, status |-> status, body |-> body])

ApiHas(docs, id) == \E k \in 1..Len(docs) : docs[k].id = id

\* documents.set(id, document): a known key keeps its place in the Map.
ApiSet(docs, document) ==
  IF ApiHas(docs, document.id)
  THEN [k \in 1..Len(docs) |-> IF docs[k].id = document.id THEN document ELSE docs[k]]
  ELSE Append(docs, document)

\* documents.delete(id)
ApiDelete(docs, id) == SelectSeq(docs, LAMBDA d : d.id # id)

\* The other modules' state is not touched by a request.
SurfaceOnly ==
  /\ ServicesIdle
  /\ UNCHANGED <<storage, localCollections>>

\* file.name.split('.').pop() || 'txt'
ApiFileType(name) ==
  LET extension == AfterLastDot(name, Len(name))
  IN  IF extension # <<>> THEN extension ELSE <<"t", "x", "t">>

\* POST; uuid is what crypto.randomUUID() would give.
POST(body, uuid) ==
  /\ NoSync
  /\ IF body.shape = "multipart"
     THEN IF body.file = Absent
          THEN /\ replied' = Response("POST", 400, [error |-> "No file provided"])
               /\ UNCHANGED apiDocuments
          ELSE LET file == body.file[1]
                   document ==
                     [ id |-> uuid,
                       title |-> Some(file.name),
                       content |-> Some(file.text),
                       fileType |-> ApiFileType(file.name),
                       fileSize |-> file.size,
                       uploadedAt |-> toISOString(now),
                       status |-> "indexed" ]
               IN  /\ ~ApiHas(apiDocuments, uuid)
                   /\ apiDocuments' = ApiSet(apiDocuments, document)
                   /\ replied' = Response("POST", 201, document)
     ELSE IF body.shape # "object"
     THEN /\ replied' = Response("POST", 500, [error |-> "Failed to upload document"])
          /\ UNCHANGED apiDocuments
     ELSE LET document ==
                [ id |-> IF body.id # NoApiId THEN body.id ELSE uuid,
                  title |-> Undefined,
                  content |-> body.content,
                  fileType |-> <<"t", "x", "t">>,
                  fileSize |-> IF body.content = Absent THEN 0 ELSE Len(body.content[1]),
                  uploadedAt |-> toISOString(now),
                  status |-> "indexed" ]
          IN  /\ body.id = NoApiId => ~ApiHas(apiDocuments, uuid)
              /\ apiDocuments' = ApiSet(apiDocuments, document)
              /\ replied' = Response("POST", 201, document)
  /\ SurfaceOnly

\* GET
GET ==
  /\ NoSync
  /\ replied' = Response("GET", 200, [documents |-> apiDocuments])
  /\ UNCHANGED apiDocuments
  /\ SurfaceOnly

\* DELETE
DELETE(body) ==
  /\ NoSync
  /\ IF body.shape # "object"
     THEN /\ replied' = Response("DELETE", 500, [error |-> "Failed to delete document"])
          /\ UNCHANGED apiDocuments
     ELSE IF body.id = NoApiId
     THEN /\ replied' = Response("DELETE", 400, [error |-> "Document ID required"])
          /\ UNCHANGED apiDocuments
     ELSE /\ apiDocuments' = ApiDelete(apiDocuments, body.id)
          /\ replied' = Response("DELETE", 200, [success |-> TRUE])
  /\ SurfaceOnly

\* The requests a client sends to /api/documents.
Surface ==
  \/ \E body \in PostBodies, uuid \in ApiIds : POST(body, uuid)
  \/ GET
  \/ \E body \in DeleteBodies : DELETE(body)

\* ------------------------------------------------- query route (HTTP API)
\* searchDocuments(query) of the route: its three built-in documents.
RouteSources ==
  << [id |-> "1", title |-> "System Architecture Guide", score |-> 92],
     [id |-> "2", title |-> "API Documentation", score |-> 85],
     [id |-> "3", title |-> "Deployment Guide", score |-> 78] >>

\* generateMockResponse(query, sources) of the route.
RouteMockResponse(query, sources) ==
  IF Len(sources) = 0 THEN [template |-> "notFound", count |-> 0, titles |-> <<>>]
  ELSE [ template |-> "basedOn", count |-> Len(sources),
         titles |-> [k \in 1..Len(sources) |-> sources[k].title] ]

\* What makes callOpenAI throw: a rejected fetch, !response.ok, a body that
\* does not parse, or a property read of undefined.
CallThrows(r) ==
  \/ r.fetch = "reject" \/ ~r.ok \/ r.json = Absent
  \/ r.json[1].choices = Absent
  \/ r.json[1].choices[1] = <<>>
  \/ r.json[1].choices[1][1].message = Absent

\* callOpenAI when it returns: data.choices[0].message.content.
callOpenAI(r) == r.json[1].choices[1][1].message[1].content

\* generateRAGResponse: r is what the provider does if it is called, elapsed
\* what Date.now() - startTime comes to. An answer that is undefined is left
\* out of the JSON body.
generateRAGResponse(query, hasKey, r, elapsed) ==
  LET sources == RouteSources
  IN  [ answer |-> IF hasKey /\ ~CallThrows(r) THEN callOpenAI(r)
                   ELSE Some(RouteMockResponse(query, sources)),
        sources |-> [k \in 1..Len(sources) |->
                       [id |-> sources[k].id, title |-> sources[k].title,
                        relevanceScore |-> sources[k].score]],
        processingTime |-> elapsed ]

\* The bodies POST /api/query can meet: nothing that parses, JSON null, or a
\* value with or without 'query' and 'apiKey'.
QueryBody(shape, query, hasKey) == [shape |-> shape, query |-> query, apiKey |-> hasKey]
RouteQueries == {text \in Texts : Len(text) < MaxTextLen}
QueryBodies ==
  {QueryBody("unparsable", Absent, FALSE), QueryBody("null", Absent, FALSE)} \cup
  {QueryBody("object", query, hasKey) :
     query \in {Absent} \cup {Some(text) : text \in RouteQueries}, hasKey \in BOOLEAN}

\* !query: missing or ''.
NoQuery(body) == body.query = Absent \/ body.query = Some(<<>>)

QueryResponse(status, body, fetched, request, response) ==
  Some([op |-> "POST /api/query", status |-> status, body |-> body, fetched |-> fetched,
        request |-> request, response |-> response])

\* POST /api/query
QueryPOST(body, r, elapsed) ==
  /\ NoSync
  /\ IF body.shape # "object"
     THEN replied' = QueryResponse(500, [error |-> "Failed to process query"], FALSE,
                                   body, Absent)
     ELSE IF NoQuery(body)
     THEN replied' = QueryResponse(400, [error |-> "Query is required"], FALSE, body, Absent)
     ELSE replied' = QueryResponse(200,
                       generateRAGResponse(body.query[1], body.apiKey, r, elapsed),
                       body.apiKey, body, IF body.apiKey THEN Some(r) ELSE Absent)
  /\ ServicesIdle
  /\ UNCHANGED <<apiDocuments, storage, localCollections>>

\* The requests a client sends to /api/query.
QueryRoute ==
  \E body \in QueryBodies, r \in CompletionResponses, elapsed \in 0..MaxTime :
    QueryPOST(body, r, elapsed)

\* uploadFile with the steps of its suspended call.
Uploads ==
  \/ \E file \in Files : uploadFile(file)
  \/ \E t \in Slots : UploadProcessing(t)
  \/ \E t \in Slots : ExtractResolve(t)
  \/ \E t \in Slots : ExtractReject(t)
  \/ \E t \in Slots : EmbedReturn(t)
  \/ \E t \in Slots : UploadFinish(t)

\* The document lifecycle: uploadFile, updateDocument, deleteDocument and
\* clearAll, under every interleaving of their suspended calls.
Lifecycle ==
  \/ Uploads
  \/ \E id \in KnownIds, content \in Contents : updateDocument(id, content)
  \/ \E t \in Slots : UpdateFinish(t)
  \/ \E id \in KnownIds : deleteDocument(id)
  \/ clearAll

Subscriptions ==
  \/ \E callback \in Callbacks : onUpdate(callback)
  \/ \E callback \in Callbacks : Unsubscribe(callback)

\* ---------------------------------------------------------- the useAI hook
\* The documents a component hands to useAI().indexDocument.
HookDocuments ==
  { [id |-> id, title |-> file.name, content |-> file.text, fileType |-> getFileType(file)] :
      id \in 1..MaxDocs, file \in Files }

ChunkKeys(documentId, n) == {chunkId(documentId, i) : i \in 0..(n - 1)}

\* What the awaited generateEmbedding calls of one pass can settle to, by key.
PassEmbeddings(document, chunks) ==
  LET answers(i) == {res.embedding : res \in generateEmbedding(chunks[i + 1], apiKey)}
  IN  { embeddingOf \in [ChunkKeys(document.id, Len(chunks)) ->
                            UNION {answers(i) : i \in 0..(Len(chunks) - 1)}] :
          \A i \in 0..(Len(chunks) - 1) : embeddingOf[chunkId(document.id, i)] \in answers(i) }

getIndexedCount(store) == Cardinality({store[k].documentId : k \in 1..Len(store)})

\* useAI().indexDocument(doc): aiService.indexDocument(doc) awaited with no
\* other call of the service started before it settles.
indexDocument(doc) ==
  /\ NoSync
  /\ \A t \in Slots : ~InFlight(t)
  /\ LET chunks == splitIntoChunks(doc.content, ChunkSize, DefaultOverlap)
     IN  \E embeddingOf \in PassEmbeddings(doc, chunks) :
           LET store1 == IndexPass(vectorStore, doc, chunks, 0, embeddingOf)
           IN  /\ vectorStore' = store1
               /\ storedVectors' = saveVectorStore(store1)
               /\ replied' = Some([op |-> "indexDocument", document |-> doc,
                                   totalChunks |-> Len(chunks),
                                   again |-> /\ replied # Absent
                                             /\ replied[1].op = "indexDocument"
                                             /\ replied[1].document = doc,
                                   indexedCount |-> getIndexedCount(store1)])
  /\ NoOutput
  /\ UNCHANGED <<objs, documents, storedDocuments, onUpdateCallbacks, apiKey, tasks, now,
                 quietDeleted, apiDocuments, storage, localCollections>>

\* useAI().removeDocument(documentId)
hookRemoveDocument(documentId) ==
  /\ NoSync
  /\ vectorStore' = removeDocument(vectorStore, documentId)
  /\ storedVectors' = saveVectorStore(vectorStore')
  /\ replied' = Some([op |-> "removeDocument", documentId |-> documentId,
                      indexedCount |-> getIndexedCount(vectorStore')])
  /\ NoOutput
  /\ UNCHANGED <<objs, documents, storedDocuments, onUpdateCallbacks, apiKey, tasks, now,
                 quietDeleted, apiDocuments, storage, localCollections>>

Hook ==
  \/ \E doc \in HookDocuments : indexDocument(doc)
  \/ \E documentId \in 1..MaxDocs : hookRemoveDocument(documentId)

\* ------------------------------------------------------- the settings page
\* The localStorage keys the services read and write.
DOCUMENTS_STORAGE_KEY == "docu-query-documents"
VectorsKey == "docu-query-vectors"
CollectionKey(collectionId) == "docu-query-" \o collectionId

\* The keys clearAllData removes.
ClearedKeys ==
  {"docuquery_documents", "docuquery_vectors", "docuquery_query_history", "docuquery_settings"}

\* What the item under key holds after removeItem on each of keys.
AfterRemove(key, keys, item, removed) == IF key \in keys THEN removed ELSE item

\* The objects of a freshly constructed DocumentService: the stored entries
\* revived under their ids; objects of the page left behind are unreachable.
Reloaded(heap, stored) ==
  [id \in 1..Len(heap) |->
     IF \E k \in 1..Len(stored) : stored[k].id = id
     THEN ReviveDocument(stored[CHOOSE k \in 1..Len(stored) : stored[k].id = id])
     ELSE heap[id]]

\* clearAllData: after confirm(), four removeItem calls and
\* window.location.reload(), which constructs every service anew from
\* localStorage and drops the page's suspended calls and subscriptions.
clearAllData(confirmed) ==
  /\ NoSync
  /\ IF ~confirmed
     THEN /\ replied' = Some([op |-> "clearAllData", confirmed |-> FALSE])
          /\ UNCHANGED <<objs, documents, storedDocuments, onUpdateCallbacks, vectorStore,
                         storedVectors, apiKey, tasks, storage, localCollections>>
     ELSE LET docs1 == AfterRemove(DOCUMENTS_STORAGE_KEY, ClearedKeys, storedDocuments, <<>>)
              vectors1 == AfterRemove(VectorsKey, ClearedKeys, storedVectors, <<>>)
          IN  /\ storedDocuments' = docs1
              /\ storedVectors' = vectors1
              /\ localCollections' =
                   [c \in Collections |->
                      AfterRemove(CollectionKey(c), ClearedKeys, localCollections[c], Absent)]
              /\ objs' = Reloaded(objs, docs1)
              /\ documents' = [k \in 1..Len(docs1) |-> docs1[k].id]
              /\ vectorStore' = loadVectorStore(vectors1)
              /\ storage' = [c \in Collections |-> Absent]
              /\ onUpdateCallbacks' = <<>>
              /\ tasks' = [t \in Slots |-> IdleTask]
              /\ UNCHANGED apiKey
              /\ replied' = Some([op |-> "clearAllData", confirmed |-> TRUE])
  /\ NoOutput
  /\ UNCHANGED <<now, quietDeleted, apiDocuments>>

\* A session that uploads, asks, and clears from the settings page.
Settings ==
  \/ Uploads
  \/ \E uuid \in ItemIds : handleSubmitQuery(TextA, uuid, TRUE)
  \/ \E confirmed \in BOOLEAN : clearAllData(confirmed)

Next ==
  \/ Lifecycle
  \/ Tick
  \/ Subscriptions
  \/ \E key \in BOOLEAN : setApiKey(key)
  \/ \E query \in Queries, topK \in TopKs : Search(query, topK)
  \/ \E text \in Texts : Embed(text)
  \/ \E userQuery \in Queries : Query(userQuery)
  \/ History
  \/ \E query \in PageQueries, uuid \in ItemIds, written \in BOOLEAN :
       handleSubmitQuery(query, uuid, written)
  \/ Surface
  \/ QueryRoute
  \/ Chunking
  \/ Hook
  \/ \E confirmed \in BOOLEAN : clearAllData(confirmed)

\* The whole engine.
Spec == Init /\ [][Next]_vars

SpecSettings == Init /\ [][Settings]_vars

\* Uploads and edits alone: no document is ever deleted.
Edits ==
  \/ Uploads
  \/ \E id \in KnownIds, content \in Contents : updateDocument(id, content)
  \/ \E t \in Slots : UpdateFinish(t)

SpecEditing == Init /\ [][Edits \/ Tick]_vars

\* A component driving the index through the useAI hook, one call at a time,
\* with no credential configured.
SpecHook == Init /\ [][Hook]_vars

\* splitIntoChunks called on its own, once, with any of its arguments.
SpecChunking == Init /\ [][replied = Absent /\ Chunking]_vars

\* The home page and the history page over one query history.
SpecPages == Init /\ [][Pages]_vars

\* The query route answering its clients.
SpecQueryRoute == Init /\ [][QueryRoute]_vars

\* The upload surface answering its clients, on its own clock.
SpecUploadSurface == Init /\ [][Surface \/ Tick]_vars

\* The query history kept through BaseCrudService, on its own clock.
SpecHistory == Init /\ [][History \/ Tick]_vars

\* The lifecycle on its own clock: no observer subscribes, no credential is
\* configured and nobody searches.
SpecLifecycle == Init /\ [][Lifecycle \/ Tick]_vars

\* The lifecycle with observers subscribing and unsubscribing.
SpecObservers == Init /\ [][Lifecycle \/ Tick \/ Subscriptions]_vars

\* The lifecycle with searches between its steps.
SpecRetrieval ==
  Init /\ [][Lifecycle \/ (\E query \in Queries, topK \in TopKs : Search(query, topK))]_vars

\* Concurrent indexing passes of uploads alone, with and without a credential.
SpecIndexing == Init /\ [][Uploads \/ (\E key \in BOOLEAN : setApiKey(key))]_vars

\* The documents a session finds persisted: both indexed, with the two-chunk
\* content TextB.
PersistedDocument(id, file) ==
  [ id |-> id, title |-> file.name, content |-> TextB,
    fileType |-> getFileType(file), fileSize |-> file.size,
    uploadedAt |-> 0, lastUpdated |-> 0, status |-> "indexed",
    chunkCount |-> Absent, error |-> Absent ]

PersistedDocuments ==
  << PersistedDocument(1, FileNamed(<<"a", ".", "T", "X", "T">>)),
     PersistedDocument(2, FileNamed(<<"b", ".", "x">>)) >>

\* The chunks indexDocument can have written for them: any of the vectors
\* generateEmbedding resolves to under each chunk key. A store with a chunk
\* whose vector is undefined fails every scan (SearchThrows) before anything
\* is ranked, so the chunks drawn are those with a vector.
PersistedChunks ==
  LET chunks == splitIntoChunks(TextB, ChunkSize, DefaultOverlap)
  IN  UNION { { MakeChunk(IndexArgument(PersistedDocuments[d]), chunks, i, res.embedding) :
                    res \in { r \in generateEmbedding(chunks[i + 1], TRUE) :
                                r.embedding # Undefined } } :
                d \in 1..Len(PersistedDocuments), i \in 0..(Len(chunks) - 1) }

\* The vector stores loadVectorStore can find: at most MaxStored chunks under
\* distinct keys, in any insertion order.
PersistedStores ==
  { store \in UNION { [1..n -> PersistedChunks] : n \in 0..MaxStored } :
      \A j, k \in 1..Len(store) : j # k => store[j].id # store[k].id }

\* A session that starts over persisted documents and a persisted vector
\* store: the constructors of DocumentService and AIService have loaded them.
InitAnswering ==
  /\ objs = PersistedDocuments
  /\ documents = [k \in 1..Len(PersistedDocuments) |-> k]
  /\ storedDocuments = saveDocuments(objs, documents)
  /\ onUpdateCallbacks = <<>>
  /\ storedVectors \in {saveVectorStore(store) : store \in PersistedStores}
  /\ vectorStore = loadVectorStore(storedVectors)
  /\ apiKey = FALSE
  /\ tasks = [t \in Slots |-> IdleTask]
  /\ now = 0
  /\ notified = Absent
  /\ returned = Absent
  /\ found = Absent
  /\ quietDeleted = {}
  /\ apiDocuments = <<>>
  /\ storage = [c \in Collections |-> Absent]
  /\ localCollections = [c \in Collections |-> Absent]
  /\ replied = Absent

\* Uploads and updates in a session whose credential is fixed at
\* construction, with nothing deleted. The event loop runs every continuation
\* that is ready, and every extraction and every embedding request settles,
\* one way or the other: each step of a suspended call is taken once it stays
\* enabled.
Progress ==
  \/ Uploads
  \/ \E id \in KnownIds, content \in Contents : updateDocument(id, content)
  \/ \E t \in Slots : UpdateFinish(t)

\* EmbedReturn(t) is enabled: an embedding request of call t is outstanding.
EmbedPending(t) == NoSync /\ tasks[t].pc = "embed"

\* The last conjunct is WF_vars(EmbedReturn(t)) with its enabling condition
\* written out.
SpecProgress ==
  /\ InitCredential
  /\ [][Progress]_vars
  /\ \A t \in Slots :
       /\ WF_vars(UploadProcessing(t))
       /\ WF_vars(ExtractReject(t) \/ ExtractResolve(t))
       /\ WF_vars(UploadFinish(t))
       /\ WF_vars(UpdateFinish(t))
       /\ ([]<>~EmbedPending(t) \/ []<><<EmbedReturn(t)>>_vars)

\* generateEmbedding called on its own, with and without a credential.
SpecEmbedding ==
  Init /\ [][(\E text \in Texts : Embed(text)) \/ (\E key \in BOOLEAN : setApiKey(key))]_vars

\* Searches over a persisted vector store, with and without a credential.
Searching ==
  \/ \E query \in UserQueries, topK \in AnyTopK : Search(query, topK)
  \/ \E key \in BOOLEAN : setApiKey(key)

SpecSearching == InitAnswering /\ [][Searching]_vars

\* Queries over a persisted vector store, with and without a credential.
Querying ==
  \/ \E userQuery \in Queries : Query(userQuery)
  \/ \E key \in BOOLEAN : setApiKey(key)

SpecQuerying == InitAnswering /\ [][Querying]_vars

\* ================================================================== claims
AllowedTransitions ==
  { <<"pending", "processing">>, <<"processing", "indexed">>, <<"processing", "error">>,
    <<"indexed", "processing">>, <<"error", "processing">> }

\* C1: every document in the document set has one of the four statuses, and
\* each step that changes the status of a document of the set takes one of
\* the five transitions of the state machine, under every interleaving.
C1_StatusStateMachine ==
  [][\A id \in 1..Len(objs) :
       (InMap(id) /\ InMap(id)') =>
         /\ objs'[id].status \in Statuses
         /\ \/ objs'[id].status = objs[id].status
            \/ <<objs[id].status, objs'[id].status>> \in AllowedTransitions]_vars

\* C5: a document of the document set whose status is indexed has its
\* chunkCount set, to the number of chunks the vector store holds for its id.
C5_ChunkCountSet ==
  \A id \in 1..Len(objs) :
    (InMap(id) /\ objs[id].status = "indexed") =>
      /\ objs[id].chunkCount # Absent
      /\ objs[id].chunkCount = Some(Len(ChunksOfDocument(vectorStore, id)))

\* C9: in every indexing pass the chunks written so far are the indices 0..j-1
\* for some j, at most one embedding request is outstanding, and it is the
\* request for chunk j: request i + 1 is not issued before chunk i is written.
C9_SequentialEmbedding ==
  \A t \in Slots :
    tasks[t].pc \in {"embed", "return"} =>
      LET j == Cardinality(tasks[t].written)
      IN  /\ tasks[t].written = 0..(j - 1)
          /\ Cardinality(tasks[t].outstanding) <= 1
          /\ \A req \in tasks[t].outstanding : req.index = j
          /\ \A i \in tasks[t].written :
               \E k \in 1..Len(vectorStore) : vectorStore[k].id = chunkId(tasks[t].id, i)

\* A pass suspended on the request for its second chunk, the first written.
C9_Witness ==
  \E t \in Slots :
    /\ tasks[t].pc = "embed"
    /\ tasks[t].written = {0}
    /\ \E req \in tasks[t].outstanding : req.index = 1

\* indexDocument run to completion, one document after the other in id order,
\* each chunk embedded as embeddingOf[chunk id] says.
RECURSIVE IndexInTurn(_, _, _, _)
IndexInTurn(store, docs, k, embeddingOf) ==
  IF k > Len(docs) THEN store
  ELSE IF docs[k].status # "indexed" THEN IndexInTurn(store, docs, k + 1, embeddingOf)
       ELSE IndexInTurn(
              IndexPass(store, IndexArgument(docs[k]),
                        splitIntoChunks(docs[k].content, ChunkSize, DefaultOverlap),
                        0, embeddingOf),
              docs, k + 1, embeddingOf)

Range(seq) == {seq[k] : k \in 1..Len(seq)}

\* The embedding each request was answered with, read off the store.
AnsweredEmbeddings ==
  [key \in {chunkId(id, i) : id \in 1..MaxDocs, i \in 0..8} |->
     IF \E k \in 1..Len(vectorStore) : vectorStore[k].id = key
     THEN (CHOOSE c \in Range(vectorStore) : c.id = key).embedding
     ELSE <<>>]

\* C10: uploads indexed as concurrent tasks leave, once all have settled, the
\* vector store contents that indexing the documents one after the other
\* leaves (the same answers given to the same embedding requests), and no step
\* of one task overwrites, removes or alters a chunk already in the store.
C10_ConcurrentAsSequential ==
  /\ [](  (\A t \in Slots : ~InFlight(t)) =>
            /\ Range(vectorStore) = Range(IndexInTurn(<<>>, objs, 1, AnsweredEmbeddings))
            /\ Len(vectorStore) = Len(IndexInTurn(<<>>, objs, 1, AnsweredEmbeddings)) )
  /\ [][\A k \in 1..Len(vectorStore) :
          Len(vectorStore') >= k /\ vectorStore'[k] = vectorStore[k]]_vars

\* Two uploads settled whose passes interleaved: a chunk of the second
\* document lies between two chunks of the first.
C10_Witness ==
  /\ \A t \in Slots : ~InFlight(t)
  /\ Len(objs) = 2 /\ objs[1].status = "indexed" /\ objs[2].status = "indexed"
  /\ Len(vectorStore) >= 3
  /\ vectorStore[1].documentId = 1
  /\ vectorStore[2].documentId = 2
  /\ vectorStore[3].documentId = 1

HasChunkOf(store, id) == \E k \in 1..Len(store) : store[k].documentId = id

\* C2: after deleteDocument(id) ran with no call on id suspended, neither the
\* vector store nor its persisted copy holds a chunk of id, and no search
\* returns a source with that id.
C2_DeleteSweepsChunks ==
  \A id \in quietDeleted :
    /\ ~HasChunkOf(vectorStore, id)
    /\ ~HasChunkOf(loadVectorStore(storedVectors), id)
    /\ found # Absent => \A k \in 1..Len(found[1]) : found[1][k].id # id

\* A search that returns the other document after document 1, indexed from
\* its upload, was deleted.
C2_Witness ==
  /\ 1 \in quietDeleted
  /\ objs[1].status = "indexed"
  /\ found # Absent /\ Len(found[1]) = 1 /\ found[1][1].id = 2

\* The chunks a completed pass over content leaves for id: one entry per
\* chunk, in index order, each carrying the chunk's text and the chunk count.
ExactChunks(store, id, content) ==
  LET chunks == splitIntoChunks(content, ChunkSize, DefaultOverlap)
      held == ChunksOfDocument(store, id)
  IN  /\ Len(held) = Len(chunks)
      /\ \A k \in 1..Len(held) :
           /\ held[k].id = chunkId(id, k - 1)
           /\ held[k].content = chunks[k]
           /\ held[k].metadata.chunkIndex = k - 1
           /\ held[k].metadata.totalChunks = Len(chunks)

UpdateCompleted ==
  /\ returned # Absent
  /\ returned[1].op = "updateDocument"
  /\ returned[1].error = Absent
  /\ returned[1].isolated

\* C3: when updateDocument(id, content) resolves and no other operation on id
\* (a suspended call, deleteDocument(id), clearAll) ran between its call and
\* its return, the chunks stored for id are exactly those of the new content.
C3_UpdateReplacesChunks ==
  UpdateCompleted =>
    ExactChunks(vectorStore, returned[1].id, objs[returned[1].id].content)

\* An update to the one-chunk text of a document indexed from the two-chunk file.
C3_WitnessFewer ==
  /\ UpdateCompleted
  /\ objs[returned[1].id].content = TextA
  /\ objs[returned[1].id].title = <<"b", ".", "x">>
  /\ objs[returned[1].id].error = Absent

\* C4: when extraction fails in uploadFile and the document is still in the
\* document set, the document has status error and a non-empty message, the
\* persisted set holds it so, and every subscribed observer was called with a
\* list that holds it so.
C4_FailureRecorded ==
  (returned # Absent /\ returned[1].error # Absent /\ InMap(returned[1].id)) =>
    LET id == returned[1].id
        Failed(doc) == doc.id = id /\ doc.status = "error" /\ doc.error # Absent
                         /\ doc.error[1] # <<>>
    IN  /\ Failed(objs[id])
        /\ \E k \in 1..Len(storedDocuments) : Failed(storedDocuments[k])
        /\ notified # Absent
        /\ Len(notified[1].calls) = Len(onUpdateCallbacks)
        /\ \A c \in 1..Len(onUpdateCallbacks) :
             /\ notified[1].calls[c].callback = onUpdateCallbacks[c]
             /\ \E k \in 1..Len(notified[1].calls[c].docs) :
                  Failed(notified[1].calls[c].docs[k])

C4_Witness ==
  /\ returned # Absent /\ returned[1].error # Absent /\ InMap(returned[1].id)
  /\ Len(onUpdateCallbacks) = 2

IsSortedByLastUpdated(docs) ==
  \A k \in 1..(Len(docs) - 1) : docs[k].lastUpdated >= docs[k + 1].lastUpdated

StatusChanged == \E id \in 1..Len(objs) : objs'[id].status # objs[id].status

\* C6: every step that changes a status, adds or removes a document notifies;
\* a notification finds the document set already persisted and calls each
\* subscribed callback once, in subscription order, with all the documents of
\* the set sorted by lastUpdated descending; no other callback is called.
C6_PersistThenNotify ==
  /\ [][(StatusChanged \/ documents' # documents) => notified' # Absent]_vars
  /\ [](notified # Absent =>
          LET n == notified[1]
          IN  /\ n.stored = saveDocuments(objs, documents)
              /\ storedDocuments = n.stored
              /\ Len(n.calls) = Len(onUpdateCallbacks)
              /\ \A c \in 1..Len(n.calls) :
                   /\ n.calls[c].callback = onUpdateCallbacks[c]
                   /\ IsSortedByLastUpdated(n.calls[c].docs)
                   /\ Len(n.calls[c].docs) = Len(documents)
                   /\ \A k \in 1..Len(documents) :
                        \E d \in 1..Len(n.calls[c].docs) :
                          n.calls[c].docs[d] = objs[documents[k]])

\* Two observers notified of two documents updated at different instants.
C6_Witness ==
  /\ notified # Absent
  /\ Len(notified[1].calls) = 2
  /\ Len(notified[1].calls[2].docs) = 2
  /\ notified[1].calls[2].docs[1].lastUpdated > notified[1].calls[2].docs[2].lastUpdated
  /\ notified[1].calls[2].docs[1].id = 2

\* C7: an id that has left the document set never returns to it, to the
\* persisted set or to a notification, also when a call on it suspended
\* before the deletion completes afterwards; updateDocument on it throws
\* not-found and starts nothing.
C7_DeletionIsTerminal ==
  /\ [][\A id \in 1..Len(objs) :
          ~InMap(id) =>
            /\ ~InMap(id)'
            /\ \A t \in Slots : (Free(t) /\ ~Free(t)') => tasks'[t].id # id
            /\ ( /\ ~InFlightOn(id)
                 /\ returned' # Absent
                 /\ returned'[1].op = "updateDocument"
                 /\ returned'[1].id = id )
                 => returned'[1].error = Some(<<"Document not found">>)]_vars
  /\ [](\A id \in 1..Len(objs) :
          ~InMap(id) =>
            /\ \A k \in 1..Len(storedDocuments) : storedDocuments[k].id # id
            /\ notified # Absent =>
                 \A c \in 1..Len(notified[1].calls) :
                   \A k \in 1..Len(notified[1].calls[c].docs) :
                     notified[1].calls[c].docs[k].id # id)

\* updateDocument throws on a document that was deleted while its upload was
\* suspended, after that upload has resolved.
C7_Witness ==
  /\ returned # Absent
  /\ returned[1].op = "updateDocument"
  /\ returned[1].error # Absent
  /\ returned[1].id = 1
  /\ objs[1].status = "indexed"
  /\ HasChunkOf(vectorStore, 1)

\* C8: a notification made by clearAll delivers the empty list and finds the
\* vector store empty.
C8_ClearAllAtomic ==
  (notified # Absent /\ notified[1].by = "clearAll") =>
    /\ notified[1].chunks = 0
    /\ \A c \in 1..Len(notified[1].calls) : notified[1].calls[c].docs = <<>>
    /\ notified[1].stored = <<>>

\* clearAll with an observer subscribed, after a document was indexed.
C8_Witness ==
  /\ notified # Absent /\ notified[1].by = "clearAll"
  /\ Len(notified[1].calls) >= 1
  /\ Len(objs) >= 1 /\ objs[1].status = "indexed"

\* A 2xx response whose body parses and has data[0].embedding and usage.
WellFormedEmbedding(r) ==
  /\ r.fetch = "resolve" /\ r.ok /\ r.json # Absent
  /\ r.json[1].data # Absent /\ r.json[1].data[1] # <<>>
  /\ r.json[1].data[1][1].embedding # Absent
  /\ r.json[1].usage # Absent

\* C11: generateEmbedding never fails: with no credential it issues no remote
\* call and returns the fallback vector with token count ceil(length / 4);
\* with a credential, a transport error, a non-2xx response or a malformed
\* body each yield that same fallback result.
C11_EmbeddingFallsBack ==
  (replied # Absent /\ replied[1].op = "generateEmbedding") =>
    LET call == replied[1]
        fallback == [ embedding |-> generateMockEmbedding(call.text),
                      tokenCount |-> (Len(call.text) + 3) \div 4 ]
    IN  /\ ~apiKey => (~call.fetched /\ call.result = fallback)
        /\ (call.fetched /\ ~WellFormedEmbedding(call.response[1])) => call.result = fallback

\* A call on id has passed extraction: it is inside indexDocument or back
\* from it.
Indexing(id) ==
  \E t \in Slots : tasks[t].id = id /\ tasks[t].pc \in {"embed", "return"}

Settled(id) == id <= Len(objs) /\ objs[id].status \in {"indexed", "error"}

\* C12: every started uploadFile or updateDocument runs to completion; once
\* no call on a document is in flight the document, unless deleted, is
\* indexed or error; a document whose call has passed extraction becomes
\* indexed, unless deleted, whatever the embedding provider answers; and a
\* document enters error only in the step where its extraction is rejected.
C12_IndexingCompletes ==
  /\ \A t \in Slots : InFlight(t) ~> (tasks[t].pc = "done")
  /\ \A id \in 1..MaxDocs :
       InFlightOn(id) ~> (~InMap(id) \/ (~InFlightOn(id) /\ Settled(id)))
  /\ \A id \in 1..MaxDocs :
       Indexing(id) ~> (~InMap(id) \/ (id <= Len(objs) /\ objs[id].status = "indexed"))
  /\ [][\A id \in 1..Len(objs) :
          (objs[id].status # "error" /\ objs'[id].status = "error") =>
            \E t \in Slots : /\ tasks[t].id = id /\ tasks[t].pc = "extract"
                              /\ tasks'[t].pc = "done"]_vars

\* A credential is set, the provider failed or answered without a vector for
\* a chunk of an upload, and the upload still ended indexed.
C12_Witness ==
  /\ apiKey
  /\ returned # Absent /\ returned[1].op = "uploadFile" /\ returned[1].error = Absent
  /\ InMap(returned[1].id) /\ objs[returned[1].id].status = "indexed"
  /\ \E k \in 1..Len(vectorStore) :
       /\ vectorStore[k].documentId = returned[1].id
       /\ vectorStore[k].embedding \in {Undefined, generateMockEmbedding(vectorStore[k].content)}

\* A 2xx response whose body parses and has choices[0].message.content.
WellFormedCompletion(r) ==
  /\ r.fetch = "resolve" /\ r.ok /\ r.json # Absent
  /\ r.json[1].choices # Absent /\ r.json[1].choices[1] # <<>>
  /\ r.json[1].choices[1][1].message # Absent
  /\ r.json[1].choices[1][1].message[1].content # Absent

\* C13: a query whose search succeeded never fails because of the generation
\* provider: with no credential it makes no generation call and answers with
\* the templated fallback, and with a credential a transport error, a non-2xx
\* status or a malformed completion body yield that fallback, which is
\* determined by the query text and the sources.
C13_QueryFallsBack ==
  (replied # Absent /\ replied[1].op = "query" /\ replied[1].error = Absent) =>
    LET call == replied[1]
        fallback == Some(generateMockResponse(call.query, call.sources))
    IN  /\ ~apiKey => (~call.fetched /\ call.answer = fallback)
        /\ (call.fetched /\ ~WellFormedCompletion(call.response[1])) => call.answer = fallback

\* The last step was a call of searchDocuments; SearchCall is what it was
\* called with and whether it threw.
Searched == replied # Absent /\ replied[1].op = "searchDocuments"
SearchCall == replied[1]
SearchReturned == Searched /\ SearchCall.error = Absent

\* The number of chunk texts joined in a source's content.
RECURSIVE Pieces(_)
Pieces(content) ==
  IF Len(content) < 2 THEN 1
  ELSE IF SubSeq(content, 1, 2) = <<"\n", "\n">>
       THEN 1 + Pieces(SubSeq(content, 3, Len(content)))
       ELSE Pieces(Tail(content))

RECURSIVE SumPieces(_)
SumPieces(sources) ==
  IF sources = <<>> THEN 0 ELSE Pieces(Head(sources).content) + SumPieces(Tail(sources))

\* C14: searchDocuments returns sources built from at most topK chunks: at
\* most topK sources, with pairwise distinct ids, each the documentId of a
\* chunk of the store that was scanned; over an empty store it returns the
\* empty sequence and raises nothing.
C14_AtMostTopKSources ==
  Searched =>
    /\ vectorStore = <<>> => (SearchCall.error = Absent /\ found = Some(<<>>))
    /\ SearchCall.error = Absent =>
         LET sources == found[1]
         IN  /\ Len(sources) <= SearchCall.topK
             /\ SumPieces(sources) <= SearchCall.topK
             /\ \A i, j \in 1..Len(sources) : sources[i].id = sources[j].id => i = j
             /\ \A i \in 1..Len(sources) :
                  \E k \in 1..Len(vectorStore) : vectorStore[k].documentId = sources[i].id

\* A search over more chunks than topK, of two documents, that filled topK.
C14_Witness ==
  /\ SearchReturned
  /\ SearchCall.topK = 2
  /\ Len(vectorStore) > SearchCall.topK
  /\ Len(found[1]) = 2

\* The similarity of the query of the last search to the k-th stored chunk.
ScoreOf(k) == cosineSimilarity(SearchCall.queryEmbedding, vectorStore[k].embedding)

\* C15: searchDocuments returns sources most relevant first: relevanceScore
\* never increases along the returned sequence, and each source's
\* relevanceScore is the highest similarity among all chunks of its document
\* in the store.
C15_MostRelevantFirst ==
  SearchReturned =>
    LET sources == found[1]
    IN  /\ \A i \in 1..Len(sources) - 1 :
             sources[i].relevanceScore >= sources[i + 1].relevanceScore
        /\ \A i \in 1..Len(sources) :
             /\ \E k \in 1..Len(vectorStore) :
                  vectorStore[k].documentId = sources[i].id /\ ScoreOf(k) = sources[i].relevanceScore
             /\ \A k \in 1..Len(vectorStore) :
                  vectorStore[k].documentId = sources[i].id => ScoreOf(k) <= sources[i].relevanceScore

\* Two sources of different relevance, the better one from a document that
\* also has a worse chunk stored before its best one.
C15_Witness ==
  /\ SearchReturned
  /\ Len(found[1]) = 2
  /\ found[1][1].relevanceScore > found[1][2].relevanceScore
  /\ \E k, m \in 1..Len(vectorStore) :
       /\ k < m
       /\ vectorStore[k].documentId = found[1][1].id
       /\ vectorStore[m].documentId = found[1][1].id
       /\ ScoreOf(k) < ScoreOf(m)

\* The rank of the k-th stored chunk: one more than the number of chunks with
\* a higher score, or with the same score and stored before it.
RankOf(k) ==
  1 + Cardinality({m \in 1..Len(vectorStore) :
                     ScoreOf(m) > ScoreOf(k) \/ (ScoreOf(m) = ScoreOf(k) /\ m < k)})

\* The stored positions of the first topK chunks by rank.
TopRanked ==
  [p \in 1..Min(SearchCall.topK, Len(vectorStore)) |->
     CHOOSE k \in 1..Len(vectorStore) : RankOf(k) = p]

\* The texts of the chunks of document id among positions, in that order,
\* joined by a blank line.
RECURSIVE JoinedContent(_, _, _)
JoinedContent(positions, id, sofar) ==
  IF positions = <<>> THEN sofar
  ELSE LET chunk == vectorStore[Head(positions)]
       IN  IF chunk.documentId # id THEN JoinedContent(Tail(positions), id, sofar)
           ELSE JoinedContent(Tail(positions), id,
                  IF sofar = Absent THEN Some(chunk.content)
                  ELSE Some(sofar[1] \o <<"\n", "\n">> \o chunk.content))

\* The first rank at which a chunk of document id stands.
FirstRank(id) ==
  CHOOSE p \in 1..Len(TopRanked) :
    /\ vectorStore[TopRanked[p]].documentId = id
    /\ \A q \in 1..(p - 1) : vectorStore[TopRanked[q]].documentId # id

\* C16: chunks are ranked by score descending with ties in store order, the
\* first topK are taken, and there is one source per document of those, in
\* the order of the documents' first occurrence; a source's content is the
\* texts of its chunks among them in rank order joined by a blank line.
C16_RankedGrouping ==
  SearchReturned =>
    LET sources == found[1]
    IN  /\ {sources[i].id : i \in 1..Len(sources)} =
             {vectorStore[TopRanked[p]].documentId : p \in 1..Len(TopRanked)}
        /\ \A i, j \in 1..Len(sources) : sources[i].id = sources[j].id => i = j
        /\ \A i, j \in 1..Len(sources) :
             i < j => FirstRank(sources[i].id) < FirstRank(sources[j].id)
        /\ \A i \in 1..Len(sources) :
             Some(sources[i].content) = JoinedContent(TopRanked, sources[i].id, Absent)

\* A search with two equally scored chunks of different documents among the
\* first topK, and a source joined from two chunks.
C16_Witness ==
  /\ SearchReturned
  /\ Len(found[1]) = 2
  /\ \E p, q \in 1..Len(TopRanked) :
       /\ p < q
       /\ ScoreOf(TopRanked[p]) = ScoreOf(TopRanked[q])
       /\ vectorStore[TopRanked[p]].documentId # vectorStore[TopRanked[q]].documentId
  /\ \E i \in 1..2 : Pieces(found[1][i].content) = 2

\* C17: updateDocument(id, content) for an id that is not in the document
\* set throws "Document not found" and changes nothing: the document set,
\* the persisted documents and the vector store stay as they were and
\* notifyUpdate is not called.
C17_UpdateUnknownChangesNothing ==
  [][\A id \in KnownIds, content \in Contents :
       (getDocument(id) = Absent /\ updateDocument(id, content)) =>
         /\ returned' = Some([op |-> "updateDocument", id |-> id,
                              error |-> Some(<<"Document not found">>), isolated |-> TRUE])
         /\ notified' = Absent
         /\ UNCHANGED <<objs, documents, storedDocuments, vectorStore, storedVectors,
                        tasks>>]_vars

\* updateDocument has thrown for the id of a deleted document while another
\* document is stored and indexed.
C17_Witness ==
  /\ returned # Absent
  /\ returned[1].op = "updateDocument"
  /\ returned[1].error = Some(<<"Document not found">>)
  /\ returned[1].id \in 1..Len(objs)
  /\ documents # <<>>
  /\ vectorStore # <<>>

\* BaseCrudService.delete(collection, id) for an id no item of the collection
\* has throws "<collection> with ID <id> not found" and writes nothing.
DeleteUnknownItemRejected ==
  [][\A c \in Collections, itemId \in ItemIds, written \in BOOLEAN :
       (FindIndex(getCollectionStorage(c), itemId) = 0 /\ delete(c, itemId, written)) =>
         /\ replied' = Rejected("delete", c, <<c, " with ID ", itemId, " not found">>)
         /\ UNCHANGED <<storage, localCollections>>]_vars

\* C18: deleting by an identifier that does not exist reports a not-found
\* failure and leaves stored state unchanged, for
\* DocumentService.deleteDocument(id) and for BaseCrudService.delete.
C18_DeleteUnknownReportsNotFound ==
  [][/\ \A id \in KnownIds :
          (getDocument(id) = Absent /\ deleteDocument(id)) =>
            /\ returned' # Absent
            /\ returned'[1].error # Absent
            /\ UNCHANGED <<documents, storedDocuments, vectorStore, storedVectors>>
     /\ \A c \in Collections, itemId \in ItemIds, written \in BOOLEAN :
          (FindIndex(getCollectionStorage(c), itemId) = 0 /\ delete(c, itemId, written)) =>
            /\ replied' = Rejected("delete", c, <<c, " with ID ", itemId, " not found">>)
            /\ UNCHANGED <<storage, localCollections>>]_vars

\* C19: BaseCrudService.update and BaseCrudService.delete called without an
\* identifier throw "<collection> ID is required for update / deletion"
\* before any write: the module's array and the localStorage entry of the
\* collection are what they were before the call.
C19_MissingIdRejectedBeforeWrite ==
  [][\A c \in Collections, written \in BOOLEAN :
       /\ \A itemData \in ItemData :
            (itemData._id = NoItemId /\ update(c, itemData, written)) =>
              /\ replied' = Rejected("update", c, <<c, " ID is required for update">>)
              /\ UNCHANGED <<storage, localCollections>>
       /\ delete(c, NoItemId, written) =>
            /\ replied' = Rejected("delete", c, <<c, " ID is required for deletion">>)
            /\ UNCHANGED <<storage, localCollections>>]_vars

\* delete was called without an id on a collection that holds an item whose
\* persisted dates are no longer what the module's array holds.
C19_Witness ==
  /\ replied = Rejected("delete", "queryhistory",
                        <<"queryhistory", " ID is required for deletion">>)
  /\ localCollections["queryhistory"] # Absent
  /\ localCollections["queryhistory"][1] # <<>>
  /\ storage["queryhistory"] # localCollections["queryhistory"]

\* DELETE with an identifier answers 200 {success: true} whether or not the
\* identifier is known; an unknown one leaves the listed documents as they
\* were, and the same DELETE a second time would leave what the first left.
DeleteWithIdSucceeds ==
  \A body \in DeleteBodies :
    (body.shape = "object" /\ body.id # NoApiId /\ DELETE(body)) =>
      /\ replied' = Response("DELETE", 200, [success |-> TRUE])
      /\ ~ApiHas(apiDocuments, body.id) => apiDocuments' = apiDocuments
      /\ ~ApiHas(apiDocuments', body.id)
      /\ \A k \in 1..Len(apiDocuments) :
           apiDocuments[k].id # body.id => ApiHas(apiDocuments', apiDocuments[k].id)
      /\ ApiDelete(apiDocuments', body.id) = apiDocuments'

\* DELETE with an identifier succeeds idempotently; a DELETE
\* whose body parses to a value without an id is answered 400, one whose
\* body does not parse or is null is answered 500, and neither changes
\* anything.
DeleteRejectionsChangeNothing ==
  [][/\ DeleteWithIdSucceeds
     /\ \A body \in DeleteBodies :
          ((body.shape # "object" \/ body.id = NoApiId) /\ DELETE(body)) =>
            /\ replied' = IF body.shape = "object"
                           THEN Response("DELETE", 400, [error |-> "Document ID required"])
                           ELSE Response("DELETE", 500, [error |-> "Failed to delete document"])
            /\ apiDocuments' = apiDocuments]_vars

\* C20: on the upload surface DELETE with an identifier succeeds idempotently,
\* known or not, and a DELETE without an identifier is answered 400 and
\* changes nothing.
C20_DeleteWithoutIdIs400 ==
  [][/\ DeleteWithIdSucceeds
     /\ \A body \in DeleteBodies :
          ((body.shape # "object" \/ body.id = NoApiId) /\ DELETE(body)) =>
            /\ replied'[1].status = 400
            /\ apiDocuments' = apiDocuments]_vars

\* The last request was a POST to /api/query.
QueryPosted == replied # Absent /\ replied[1].op = "POST /api/query"

\* C21: POST /api/query with a missing or empty query is answered 400 without
\* a provider call; with a non-empty query it is answered 200 with answer,
\* sources and processingTime whatever the provider does, with or without a
\* credential.
C21_QueryRouteNeverFailsOnProvider ==
  QueryPosted =>
    LET call == replied[1]
    IN  IF call.request.shape # "object" \/ NoQuery(call.request)
        THEN call.status = 400 /\ ~call.fetched
        ELSE /\ call.status = 200
             /\ call.body.answer # Undefined
             /\ Len(call.body.sources) = Len(RouteSources)
             /\ call.body.processingTime \in 0..MaxTime

\* What holds of the route: the status is 200 for every body that carries a
\* query, whatever the provider does; 400 for a parsed body without one.
QueryRouteStatus ==
  QueryPosted =>
    LET call == replied[1]
    IN  /\ call.status = 500 <=> call.request.shape # "object"
        /\ call.status = 400 <=> (call.request.shape = "object" /\ NoQuery(call.request))
        /\ call.status # 200 => ~call.fetched
        /\ (call.status = 200 /\ call.body.answer = Undefined) =>
             (call.fetched /\ ~CallThrows(call.response[1]))

\* The query history as the pages read it, before and after a step.
HistoryBefore == getCollectionStorage("queryhistory")
HistoryAfter == CollectionOf(localCollections', storage', "queryhistory")

\* The last call settled without an error and was op.
Settles(op) == replied' # Absent /\ replied'[1].op = op /\ replied'[1].error = Absent

Quiet == \A t \in Slots : ~InFlight(t)

SplitCalled == replied # Absent /\ replied[1].op = "splitIntoChunks"

\* C24: splitIntoChunks returns at least one chunk, every chunk a non-empty
\* string; when no sentence can be extracted it returns the text itself as
\* the single chunk.
C24_ChunksNonEmpty ==
  SplitCalled =>
    LET call == replied[1]
    IN  /\ Len(call.chunks) >= 1
        /\ \A k \in 1..Len(call.chunks) : call.chunks[k] # <<>>
        /\ call.sentences = <<>> => call.chunks = <<call.text>>

\* What holds of every call: at least one chunk; the text itself when no
\* sentence can be extracted; every chunk non-empty and trimmed unless the
\* text is empty.
ChunksNonEmptyForNonEmptyText ==
  SplitCalled =>
    LET call == replied[1]
    IN  /\ Len(call.chunks) >= 1
        /\ call.sentences = <<>> => call.chunks = <<call.text>>
        /\ call.text # <<>> => \A k \in 1..Len(call.chunks) : call.chunks[k] # <<>>
        /\ call.sentences # <<>> =>
             \A k \in 1..Len(call.chunks) : Trim(call.chunks[k]) = call.chunks[k]

\* The last n pieces of buffer.split(' ') joined by spaces, and the space
\* the loop appends to a seed.
TrailingWords(buffer, n) ==
  LET words == SplitSpaces(buffer, 1, <<>>)
      kept == Min(n, Len(words))
  IN  JoinSpaces(SubSeq(words, Len(words) - kept + 1, Len(words))) \o <<" ">>

\* A chunk is pushed for every closing, and once more at the end for what
\* the buffer then holds.
OnePerClosing(call) ==
  Len(call.chunks) \in {Len(call.closed), Len(call.closed) + 1}

\* C25: a chunk is closed only when the buffer is non-empty and the next
\* sentence would take it beyond chunkSize, and the next buffer is seeded
\* with exactly floor(overlap / 10) trailing words of the closed buffer, no
\* word at all when overlap is less than 10.
C25_OverlapSeed ==
  (SplitCalled /\ replied[1].sentences # <<>>) =>
    LET call == replied[1]
    IN  /\ OnePerClosing(call)
        /\ \A k \in 1..Len(call.closed) :
             LET closing == call.closed[k]
             IN  /\ closing.buffer # <<>>
                 /\ Len(closing.buffer) + Len(closing.sentence) > call.chunkSize
                 /\ closing.seed =
                      TrailingWords(closing.buffer,
                                    IF call.overlap < 10 THEN 0 ELSE call.overlap \div 10)

\* What holds of the seed: for an overlap of ten or more it is the last
\* floor(overlap / 10) pieces of the closed buffer.
SeedForTenOrMore ==
  (SplitCalled /\ replied[1].sentences # <<>> /\ replied[1].overlap >= 10) =>
    LET call == replied[1]
    IN  /\ OnePerClosing(call)
        /\ \A k \in 1..Len(call.closed) :
             LET closing == call.closed[k]
             IN  /\ closing.buffer # <<>>
                 /\ Len(closing.buffer) + Len(closing.sentence) > call.chunkSize
                 /\ closing.seed = TrailingWords(closing.buffer, call.overlap \div 10)

KeysOf(store, documentId) ==
  {store[k].id : k \in {m \in 1..Len(store) : store[m].documentId = documentId}}

CountOf(store, documentId) == Len(ChunksOfDocument(store, documentId))

KeysMatchChunks(store) ==
  /\ \A k \in 1..Len(store) :
       store[k].id = chunkId(store[k].documentId, store[k].metadata.chunkIndex)
  /\ \A k, m \in 1..Len(store) :
       (store[k].documentId # store[m].documentId
          \/ store[k].metadata.chunkIndex # store[m].metadata.chunkIndex)
       => store[k].id # store[m].id
  /\ \A k, m \in 1..Len(store) : store[k].id = store[m].id => k = m

Reindexed ==
  /\ replied' # Absent
  /\ replied'[1].op = "indexDocument"
  /\ replied'[1].again

\* C26: every stored chunk sits under the key made of its documentId and its
\* chunkIndex, two chunks that differ in documentId or chunkIndex never share
\* a key, a pass of indexDocument writes the keys 0..n-1 of its document, and
\* indexing the same document id with the same content a second time leaves
\* the set of chunk keys and the number of chunks of that id as they were
\* after the first time.
C26_ReindexIdempotent ==
  /\ [](KeysMatchChunks(vectorStore) /\ saveVectorStore(vectorStore) = storedVectors)
  /\ [][ /\ (replied' # Absent /\ replied'[1].op = "indexDocument")
             => ChunkKeys(replied'[1].document.id, replied'[1].totalChunks)
                  \subseteq KeysOf(vectorStore', replied'[1].document.id)
         /\ Reindexed
             => /\ KeysOf(vectorStore', replied'[1].document.id)
                     = KeysOf(vectorStore, replied'[1].document.id)
                /\ CountOf(vectorStore', replied'[1].document.id)
                     = CountOf(vectorStore, replied'[1].document.id)
       ]_vars

\* A document of several chunks indexed a second time, next to another one.
C26_Witness ==
  /\ replied # Absent
  /\ replied[1].op = "indexDocument"
  /\ replied[1].again
  /\ replied[1].totalChunks >= 2
  /\ replied[1].indexedCount >= 2

\* C27: whenever no upload or update is in flight, every chunk of the vector
\* store belongs to a document of the document set.
C27_NoChunkOutlivesDocument ==
  Quiet => \A k \in 1..Len(vectorStore) : InMap(vectorStore[k].documentId)

\* C28: once no upload or update of a document is in flight and the document
\* is indexed, the chunks stored for its id are exactly the chunks of the
\* content the document holds (indices 0..n-1, each with totalChunks = n),
\* whatever uploadFile and updateDocument calls on that id overlapped before.
\* (The content held is the one the claim speaks of when it is the content of
\* the operation started last; when it is not, the claim fails on that.)
C28_OverlappingEditsConsistent ==
  \A id \in 1..Len(objs) :
    (InMap(id) /\ ~InFlightOn(id) /\ objs[id].status = "indexed")
      => ExactChunks(vectorStore, id, objs[id].content)

\* C29: a document of the document set whose status is pending, processing
\* or indexed has no error message.
C29_ErrorOnlyWhileStatusError ==
  \A id \in 1..Len(objs) :
    (InMap(id) /\ objs[id].status # "error") => objs[id].error = Absent

Cleared ==
  /\ replied # Absent
  /\ replied[1].op = "clearAllData"
  /\ replied[1].confirmed

\* C30: after a confirmed 'clear all data' and the reload it triggers, the
\* persisted document set, vector store and query history are gone and the
\* document list, the vector store and the query history are empty.
C30_ClearAllDataEmptiesEverything ==
  Cleared =>
    /\ storedDocuments = <<>> /\ documents = <<>>
    /\ storedVectors = <<>> /\ vectorStore = <<>>
    /\ localCollections["queryhistory"] = Absent
    /\ getCollectionStorage("queryhistory") = <<>>
====
